---- MODULE Spec2Model ----
(***************************************************************************)
(* Attendance and roll-call engine of TimeLogger.                          *)
(*                                                                         *)
(* Time is counted in whole seconds since a Monday 00:00 UTC (day 0), so   *)
(* a date is an instant divided by 86400 and a weekday is a date modulo 7  *)
(* (0 = Monday, as Python's date.weekday()).  The database tables are the  *)
(* variables; every handler is one action, and the handlers that can race  *)
(* also exist split at their read/commit boundary.                         *)
(***************************************************************************)
EXTENDS Integers, Sequences, FiniteSets, TLC

VARIABLES now,              \* datetime.utcnow()
          users,            \* users table: id -> row
          orgs,             \* organizations table: id -> row
          shiftTemplates,   \* shift_templates table (set of rows)
          shiftAssignments, \* shift_assignments table (set of rows)
          sessions,         \* work_sessions table (sequence, id = index)
          leaves,           \* leaves table (set of rows)
          rollCalls,        \* roll_calls table (sequence, id = index)
          deductions,       \* deductions table (sequence, id = index)
          lastCall,         \* the last handler call and what it returned
          tickTxn,          \* schedule_roll_calls_for_current_hour calls in flight
          respondTxn,       \* respond_roll_call requests in flight
          expireTxn,        \* expire_roll_calls sweep in flight
          summaryTxn        \* build_summary_for_day calls in flight

vars == <<now, users, orgs, shiftTemplates, shiftAssignments, sessions, leaves,
          rollCalls, deductions, lastCall, tickTxn, respondTxn, expireTxn,
          summaryTxn>>

dbVars == <<users, orgs, shiftTemplates, shiftAssignments, sessions, leaves,
            rollCalls, deductions>>

txnVars == <<tickTxn, respondTxn, expireTxn, summaryTxn>>

----------------------------------------------------------------------------
(* Values *)

Null == 0 - 1          \* Python None / SQL NULL
NoZone == "none"       \* a NULL timezone column
NoWindow == [shift_id |-> Null]

Max2(a, b) == IF a >= b THEN a ELSE b
Min2(a, b) == IF a <= b THEN a ELSE b
Range(s) == {s[i] : i \in DOMAIN s}

SecondsPerMinute == 60
SecondsPerHour == 3600
SecondsPerDay == 86400
DaysPerWeek == 7

Date(t) == t \div SecondsPerDay
Weekday(d) == d % DaysPerWeek
TimeOfDay(h, m) == h * SecondsPerHour + m * SecondsPerMinute

RESPONSE_WINDOW_MINUTES == 5
MIN_GAP_MINUTES == 5
MAX_GAP_MINUTES == 16
MIN_ROLLCALLS_PER_HOUR == 1
DEFAULT_ROLLCALLS_PER_HOUR == 5
MAX_ROLLCALLS_PER_HOUR == Max2(MIN_ROLLCALLS_PER_HOUR, 60 \div MIN_GAP_MINUTES)

----------------------------------------------------------------------------
(* Bounds of the model *)

MaxHours == 2          \* hour buckets the clock runs through
MaxLeaves == 1         \* rows of leaves
MaxSessions == 8       \* rows of work_sessions
GapGrid == 1000        \* randint draws: both ends and the multiples of GapGrid

FirstDay == DaysPerWeek                 \* a Monday
FirstInstant == FirstDay * SecondsPerDay + TimeOfDay(23, 0)
ClockOffsets == {0, 900, 3300, 3420}     \* seconds into the first hour
LaterOffsets == {0, 900}                 \* seconds into each later hour
Instants == {FirstInstant + off : off \in ClockOffsets}
            \cup {FirstInstant + h * SecondsPerHour + off :
                     h \in 1 .. (MaxHours - 1), off \in LaterOffsets}
LeaveDates == {FirstDay, FirstDay + 1}
TargetSettings == {1, 3}

UserIds == 1 .. 6
OrgIds == 1 .. 2
LeaveUsers == {1}
SessionUsers == {6}
SummaryUsers == {1, 6}
SummaryDates == {FirstDay, FirstDay + 1}
UnassignIds == {6}
Responders == {1, 3}
LateResponders == {1}

----------------------------------------------------------------------------
(* Time zones: offset from UTC in seconds *)

\* the zones the zone database knows in the model; ZoneInfo(name) raises
\* ZoneInfoNotFoundError for any other name
ValidZones == {"UTC", "America/New_York", "America/Chicago"}

\* the standard offset of a zone
ZoneOffset(tz_value) ==
    IF tz_value = "America/New_York" THEN 0 - 5 * SecondsPerHour
    ELSE IF tz_value = "America/Chicago" THEN 0 - 6 * SecondsPerHour
    ELSE 0

\* America/Chicago moves its clocks from 02:00 to 03:00 on the Sunday of the
\* second week; the other zones keep one offset in the weeks of the model
DstZones == {"America/Chicago"}
DstStartDay == 13
DstStartLocal == DstStartDay * SecondsPerDay + 2 * SecondsPerHour

\* datetime.astimezone(tz) of a UTC instant: the offset in force at it
UtcOffsetAtUtc(tz_value, t) ==
    IF tz_value \in DstZones /\ t >= DstStartLocal - ZoneOffset(tz_value)
    THEN ZoneOffset(tz_value) + SecondsPerHour
    ELSE ZoneOffset(tz_value)

\* utcoffset() of a wall time with fold = 0: a wall time inside the skipped
\* hour keeps the offset in force before the change (PEP 495)
UtcOffsetAtLocal(tz_value, wall) ==
    IF tz_value \in DstZones /\ wall >= DstStartLocal + SecondsPerHour
    THEN ZoneOffset(tz_value) + SecondsPerHour
    ELSE ZoneOffset(tz_value)

ToLocal(tz_value, t) == t + UtcOffsetAtUtc(tz_value, t)
ToUtc(tz_value, wall) == wall - UtcOffsetAtLocal(tz_value, wall)

default_timezone == "UTC"
DEVICE_TIMEZONE == "device"

----------------------------------------------------------------------------
(* services/shifts.py *)

RECURSIVE SortById(_)
SortById(S) ==
    IF S = {} THEN <<>>
    ELSE LET m == CHOOSE x \in S : \A y \in S : x.id <= y.id
         IN  <<m>> \o SortById(S \ {m})

contains(window, timestamp) ==
    window.start_utc <= timestamp /\ timestamp < window.end_utc

candidate_dates(reference_date, target_weekday) ==
    LET delta == (Weekday(reference_date) - target_weekday + DaysPerWeek) % DaysPerWeek
        candidate == reference_date - delta
    IN  <<candidate, candidate - DaysPerWeek, candidate + DaysPerWeek>>

build_window(template, assignment, tz_value, candidate) ==
    LET start_local == candidate * SecondsPerDay + template.start_time
        end_0 == candidate * SecondsPerDay + template.end_time
        end_local == IF end_0 <= start_local THEN end_0 + SecondsPerDay ELSE end_0
    IN  [shift_id |-> template.id,
         assignment_id |-> assignment.id,
         org_id |-> template.org_id,
         user_id |-> assignment.user_id,
         timezone |-> tz_value,
         local_start |-> start_local,
         local_end |-> end_local,
         start_utc |-> ToUtc(tz_value, start_local),
         end_utc |-> ToUtc(tz_value, end_local)]

OutsideEffectiveRange(assignment, candidate) ==
    \/ assignment.effective_from # Null /\ candidate < assignment.effective_from
    \/ assignment.effective_to # Null /\ candidate > assignment.effective_to

TemplateOf(assignment) ==
    CHOOSE t \in shiftTemplates : t.id = assignment.shift_id

TzValue(template) ==
    IF template.timezone # NoZone THEN template.timezone
    ELSE IF orgs[template.org_id].timezone # NoZone
         THEN orgs[template.org_id].timezone
         ELSE default_timezone

RECURSIVE AddCandidates(_, _, _, _, _)
AddCandidates(windows, template, assignment, cands, k) ==
    IF k > Len(cands) THEN windows
    ELSE LET candidate == cands[k]
             window == build_window(template, assignment, TzValue(template), candidate)
             seen == \E i \in 1 .. Len(windows) :
                        /\ windows[i].shift_id = template.id
                        /\ windows[i].start_utc = window.start_utc
         IN  AddCandidates(
                 IF OutsideEffectiveRange(assignment, candidate) \/ seen
                 THEN windows ELSE Append(windows, window),
                 template, assignment, cands, k + 1)

RECURSIVE AddAssignments(_, _, _, _)
AddAssignments(windows, assignments, i, reference) ==
    IF i > Len(assignments) THEN windows
    ELSE LET assignment == assignments[i]
             template == TemplateOf(assignment)
             local_reference == ToLocal(TzValue(template), reference)
             cands == candidate_dates(Date(local_reference), template.day_of_week)
         IN  AddAssignments(AddCandidates(windows, template, assignment, cands, 1),
                            assignments, i + 1, reference)

windows_for_assignments(user_id, reference) ==
    AddAssignments(<<>>,
                   SortById({a \in shiftAssignments : a.user_id = user_id}),
                   1, reference)

get_active_shift_window(user_id, reference) ==
    LET windows == windows_for_assignments(user_id, reference)
        hits == {i \in 1 .. Len(windows) : contains(windows[i], reference)}
    IN  IF hits = {} THEN NoWindow
        ELSE windows[CHOOSE i \in hits : \A j \in hits : i <= j]

get_shift_window_for_timestamp(user_id, reference) ==
    get_active_shift_window(user_id, reference)

resolve_timezone(user_tz, org_tz) ==
    IF user_tz # NoZone /\ user_tz # DEVICE_TIMEZONE THEN user_tz
    ELSE IF org_tz # NoZone THEN org_tz
    ELSE default_timezone

user_has_unassigned_access(user_id) == users[user_id].allow_unassigned_sessions

\* the all-day window of a user without a shift that day; NoWindow when the
\* user has no unassigned access
build_unassigned_window_for_day(user_id, target_date) ==
    IF ~user_has_unassigned_access(user_id) THEN NoWindow
    ELSE LET tz_value == resolve_timezone(users[user_id].timezone,
                                          orgs[users[user_id].org_id].timezone)
             start_local == target_date * SecondsPerDay
             end_local == start_local + SecondsPerDay
         IN  [shift_id |-> 0,
              assignment_id |-> 0,
              org_id |-> users[user_id].org_id,
              user_id |-> user_id,
              timezone |-> tz_value,
              local_start |-> start_local,
              local_end |-> end_local,
              start_utc |-> ToUtc(tz_value, start_local),
              end_utc |-> ToUtc(tz_value, end_local)]

\* list.sort(key=start_utc): a stable insertion of w into a sorted list
RECURSIVE InsertByStart(_, _)
InsertByStart(sorted, w) ==
    IF sorted = <<>> THEN <<w>>
    ELSE IF sorted[Len(sorted)].start_utc <= w.start_utc THEN Append(sorted, w)
    ELSE Append(InsertByStart(SubSeq(sorted, 1, Len(sorted) - 1), w), sorted[Len(sorted)])

RECURSIVE SortByStart(_)
SortByStart(windows) ==
    IF windows = <<>> THEN <<>>
    ELSE InsertByStart(SortByStart(SubSeq(windows, 1, Len(windows) - 1)),
                       windows[Len(windows)])

OverlapsDay(window, day_start, day_end) ==
    ~(window.end_utc <= day_start \/ window.start_utc >= day_end)

\* mutant: the fallback window is added to the windows of the day
get_shift_windows_for_day_WithFallback(user_id, target_date) ==
    LET day_start == target_date * SecondsPerDay
        day_end == day_start + SecondsPerDay
        windows == windows_for_assignments(user_id, day_end)
        active == SortByStart(SelectSeq(windows,
                                 LAMBDA w : OverlapsDay(w, day_start, day_end)))
        fallback == build_unassigned_window_for_day(user_id, target_date)
    IN  IF fallback # NoWindow THEN active \o <<fallback>> ELSE active

get_shift_windows_for_day(user_id, target_date) ==
    LET day_start == target_date * SecondsPerDay
        day_end == day_start + SecondsPerDay
        windows == windows_for_assignments(user_id, day_end)
        active == SortByStart(SelectSeq(windows,
                                 LAMBDA w : OverlapsDay(w, day_start, day_end)))
        fallback == build_unassigned_window_for_day(user_id, target_date)
    IN  IF active = <<>> /\ fallback # NoWindow THEN <<fallback>> ELSE active

\* line 94: ZoneInfo(tz_value) raises ZoneInfoNotFoundError for a name that is
\* not in the zone database; nothing in _windows_for_assignments catches it
windows_for_assignments_raises(user_id) ==
    \E a \in shiftAssignments :
       a.user_id = user_id /\ TzValue(TemplateOf(a)) \notin ValidZones

\* line 207: the same in build_unassigned_window_for_day
build_unassigned_window_raises(user_id) ==
    /\ user_has_unassigned_access(user_id)
    /\ resolve_timezone(users[user_id].timezone,
                        orgs[users[user_id].org_id].timezone) \notin ValidZones

\* lines 50-58: the exception leaves get_shift_windows_for_day at the call of
\* line 50, or at the call of line 58 when no window is active
get_shift_windows_for_day_raises(user_id, target_date) ==
    LET day_start == target_date * SecondsPerDay
        day_end == day_start + SecondsPerDay
    IN  \/ windows_for_assignments_raises(user_id)
        \/ /\ \A w \in Range(windows_for_assignments(user_id, day_end)) :
                 ~OverlapsDay(w, day_start, day_end)
           /\ build_unassigned_window_raises(user_id)

\* lines 163-171: the entry of the schedule for a window; the ISO strings of
\* lines 167-168 are UTC instants in one fixed format, kept as the instants
\* they denote, and line 172 orders them as the instants are ordered
ScheduleEntry(window) ==
    [start_utc |-> window.start_utc,
     end_utc |-> window.end_utc,
     source_timezone |-> window.timezone]

\* the loop of lines 157-171 from the day today + offset on
RECURSIVE ScheduleEntriesFrom(_, _, _, _)
ScheduleEntriesFrom(user_id, today, offset, window_limit) ==
    IF offset >= window_limit THEN <<>>
    ELSE LET windows == get_shift_windows_for_day(user_id, today + offset)
             real == SelectSeq(windows, LAMBDA w : w.assignment_id # 0)
         IN  [k \in DOMAIN real |-> ScheduleEntry(real[k])]
             \o ScheduleEntriesFrom(user_id, today, offset + 1, window_limit)

describe_user_schedule(user_id, today, days_ahead) ==
    SortByStart(ScheduleEntriesFrom(user_id, today, 0, Max2(1, Min2(31, days_ahead))))

describe_user_schedule_raises(user_id, today, days_ahead) ==
    \E offset \in 0 .. (Max2(1, Min2(31, days_ahead)) - 1) :
       get_shift_windows_for_day_raises(user_id, today + offset)

----------------------------------------------------------------------------
(* services/rollcall_scheduler.py *)

\* Python values a target can be: None, an int, a str, a list
PyNone == [py |-> "None"]
PyInt(n) == [py |-> "int", n |-> n]
PyStr(s) == [py |-> "str", s |-> s]
PyList == [py |-> "list"]

\* the strings int() accepts, with their values: optional sign, decimal
\* digits, surrounding white space
IntLiterals ==
    [s \in {"7", " 12 ", "-4", "013", "0"} |->
        CASE s = "7" -> 7 [] s = " 12 " -> 12 [] s = "-4" -> 0 - 4
          [] s = "013" -> 13 [] s = "0" -> 0]

\* lines 21-24: int(value), None for None and where int() raises TypeError
\* (a list) or ValueError (a string that is no integer literal)
ParsedTarget(value) ==
    CASE value.py = "None" -> PyNone
      [] value.py = "int" -> value
      [] value.py = "str" -> IF value.s \in DOMAIN IntLiterals
                             THEN PyInt(IntLiterals[value.s]) ELSE PyNone
      [] value.py = "list" -> PyNone

\* mutant: the target has no lower limit
clamp_rollcall_target_NoLowerLimit(value) ==
    LET parsed == ParsedTarget(value)
    IN  IF parsed = PyNone THEN DEFAULT_ROLLCALLS_PER_HOUR
        ELSE Min2(MAX_ROLLCALLS_PER_HOUR, parsed.n)

clamp_rollcall_target(value) ==
    LET parsed == ParsedTarget(value)
    IN  IF parsed = PyNone THEN DEFAULT_ROLLCALLS_PER_HOUR
        ELSE Max2(MIN_ROLLCALLS_PER_HOUR, Min2(MAX_ROLLCALLS_PER_HOUR, parsed.n))

\* settings.get("rollcalls_per_hour"): the stored integer, None without one
StoredTarget(settings) ==
    IF settings.rollcalls_per_hour = Null THEN PyNone
    ELSE PyInt(settings.rollcalls_per_hour)

target_from_settings(settings) == clamp_rollcall_target(StoredTarget(settings))

start_of_hour(t) == t - (t % SecondsPerHour)
end_of_hour(t) == start_of_hour(t) + SecondsPerHour
\* mutant: a roll-call may start until the end of the hour
latest_allowed_start_EndOfHour(t) == end_of_hour(t)

\* mutant: a roll-call may start until one minute before the end of the hour
latest_allowed_start_LastMinute(t) == end_of_hour(t) - SecondsPerMinute

latest_allowed_start(t) == end_of_hour(t) - RESPONSE_WINDOW_MINUTES * SecondsPerMinute
\* mutant: ten minutes to answer
response_window_TenMinutes == 2 * RESPONSE_WINDOW_MINUTES * SecondsPerMinute

response_window == RESPONSE_WINDOW_MINUTES * SecondsPerMinute

InHourOf(rc, org_id, t) ==
    /\ rc.org_id = org_id
    /\ rc.triggered_at >= start_of_hour(t)
    /\ rc.triggered_at < end_of_hour(t)

RECURSIVE SortByTrigger(_)
SortByTrigger(S) ==
    IF S = {} THEN <<>>
    ELSE LET m == CHOOSE x \in S : \A y \in S :
                     \/ x.triggered_at < y.triggered_at
                     \/ x.triggered_at = y.triggered_at /\ x.id <= y.id
         IN  <<m>> \o SortByTrigger(S \ {m})

existing_roll_calls(table, org_id, t) ==
    SortByTrigger({rc \in Range(table) : InHourOf(rc, org_id, t)})

\* mutant: the covered-user test never fires
already_has_rollcall_Never(roll_calls, user_id) == FALSE

already_has_rollcall(roll_calls, user_id) ==
    \E i \in 1 .. Len(roll_calls) : roll_calls[i].user_id = user_id

leave_today(org_id, t) ==
    {l.user_id : l \in {x \in leaves : x.org_id = org_id /\ x.date = Date(t)}}

HasOpenWorkSession(user_id, t) ==
    \E i \in 1 .. Len(sessions) :
        /\ sessions[i].user_id = user_id
        /\ sessions[i].session_type = "WORK"
        /\ sessions[i].started_at <= t
        /\ sessions[i].ended_at = Null

get_active_users(org_id, t) ==
    {u \in UserIds :
        /\ users[u].org_id = org_id
        /\ users[u].is_active
        /\ HasOpenWorkSession(u, t)
        /\ u \notin leave_today(org_id, t)
        /\ get_shift_window_for_timestamp(u, t) # NoWindow}

\* mutant: the anchor ignores the latest existing trigger
Anchor_NowOnly(last_triggered_at, t) == t

Anchor(last_triggered_at, t) ==
    Max2(IF last_triggered_at = Null THEN t ELSE last_triggered_at, t)

\* mutant: the loop runs one slot past the target
LoopContinues_OffByOne(n_existing, n_scheduled, target_count, active_users) ==
    n_existing + n_scheduled <= target_count /\ active_users # {}

LoopContinues(n_existing, n_scheduled, target_count, active_users) ==
    n_existing + n_scheduled < target_count /\ active_users # {}

\* mutant: the gap is limited by the remaining window only
MaxGapAllowed_Unbounded(max_gap, remaining_window) == remaining_window

MaxGapAllowed(max_gap, remaining_window) == Min2(max_gap, remaining_window)

\* random.randint(lo, hi): any integer of lo..hi; the model draws both ends
\* and the multiples of GapGrid between them
randint(lo, hi) ==
    {lo, hi} \cup {k * GapGrid : k \in ((lo + GapGrid - 1) \div GapGrid) .. (hi \div GapGrid)}

\* mutant: the first roll-call of the hour is offset like the later ones
FirstTargetTime_Offset(anchor) == anchor + MIN_GAP_MINUTES * SecondsPerMinute

FirstTargetTime(anchor) == anchor

NewRollCall(org_id, user_id, target_time) ==
    [id |-> Null,
     org_id |-> org_id,
     user_id |-> user_id,
     triggered_at |-> target_time,
     deadline_at |-> target_time + response_window,
     responded_at |-> Null,
     result |-> "PENDING",
     response_delay_seconds |-> Null]

\* The while loop of lines 79-110: the set of lists `scheduled` it can end
\* with.  One iteration draws target_time (lines 80-90), stops if it is past
\* latest (line 92), draws a user (line 95) and either drops a covered user
\* from the pool (lines 96-98; the drawn time is discarded) or adds a row.
RECURSIVE ScheduleLoop(_, _, _, _, _)
ScheduleLoop(call, scheduled, anchor, first_new_roll_call, active_users) ==
    IF ~LoopContinues(Len(call.existing), Len(scheduled), call.target_count, active_users)
    THEN {scheduled}
    ELSE
      LET min_gap == MIN_GAP_MINUTES * SecondsPerMinute
          max_gap == MAX_GAP_MINUTES * SecondsPerMinute
          remaining_window == call.latest - anchor
          times == IF first_new_roll_call THEN {FirstTargetTime(anchor)}
                   ELSE IF remaining_window <= min_gap THEN {}
                   ELSE {anchor + g :
                           g \in randint(min_gap, MaxGapAllowed(max_gap, remaining_window))}
          in_time == {target_time \in times : ~(target_time > call.latest)}
          covered == {u \in active_users :
                         already_has_rollcall(call.existing \o scheduled, u)}
      IN  IF times = {} THEN {scheduled}
          ELSE (IF in_time # times THEN {scheduled} ELSE {})
               \cup (IF in_time = {} THEN {}
                     ELSE UNION { ScheduleLoop(call, scheduled, anchor, FALSE,
                                               active_users \ {u})
                                : u \in covered })
               \cup UNION { ScheduleLoop(call,
                                         Append(scheduled,
                                                NewRollCall(call.org_id, pick[1], pick[2])),
                                         pick[2], FALSE, active_users)
                          : pick \in (active_users \ covered) \X in_time }

\* lines 53-66: what one call reads before it schedules
ReadForSchedule(table, org_id, t) ==
    [org_id |-> org_id,
     at |-> t,
     existing |-> existing_roll_calls(table, org_id, t),
     active_users |-> get_active_users(org_id, t)]

\* lines 63-110 on what was read: the lists of new roll-calls the call can add
ScheduleFrom(read, target_count) ==
    IF Len(read.existing) >= target_count THEN {<<>>}
    ELSE IF read.active_users = {} THEN {<<>>}
    ELSE LET last_triggered_at ==
                 IF Len(read.existing) > 0
                 THEN read.existing[Len(read.existing)].triggered_at ELSE Null
         IN  ScheduleLoop([org_id |-> read.org_id,
                           existing |-> read.existing,
                           target_count |-> target_count,
                           latest |-> latest_allowed_start(read.at)],
                          <<>>,
                          Anchor(last_triggered_at, read.at),
                          last_triggered_at = Null,
                          read.active_users)

\* db.add + db.flush of each scheduled row: ids follow the table
RECURSIVE InsertAll(_, _)
InsertAll(table, rows) ==
    IF rows = <<>> THEN table
    ELSE InsertAll(Append(table, [Head(rows) EXCEPT !.id = Len(table) + 1]), Tail(rows))

schedule_roll_calls_for_current_hour(table, org_id, t, target_count) ==
    {InsertAll(table, scheduled) :
        scheduled \in ScheduleFrom(ReadForSchedule(table, org_id, t),
                                   clamp_rollcall_target(target_count))}

----------------------------------------------------------------------------
(* routers/roll_calls.py: rollcall_tick *)

TickOrgIds == {sessions[i].org_id : i \in 1 .. Len(sessions)}

RECURSIVE SortInts(_)
SortInts(S) ==
    IF S = {} THEN <<>>
    ELSE LET m == CHOOSE x \in S : \A y \in S : x <= y
         IN  <<m>> \o SortInts(S \ {m})

\* the for loop of lines 117-125 over org_ids[k..]: the tables it can end with
RECURSIVE TickOrgs(_, _, _)
TickOrgs(table, org_ids, k) ==
    IF k > Len(org_ids) THEN {table}
    ELSE UNION { TickOrgs(next, org_ids, k + 1) :
                   next \in schedule_roll_calls_for_current_hour(
                                table, org_ids[k], now,
                                PyInt(target_from_settings(orgs[org_ids[k]].settings))) }

NoCall == [op |-> "none", at |-> Null, user |-> Null, id |-> Null,
           result |-> "none", ids |-> {}]

rollcall_tick ==
    /\ \E table \in TickOrgs(rollCalls, SortInts(TickOrgIds), 1) :
          /\ rollCalls' = table
          /\ lastCall' = [NoCall EXCEPT !.op = "tick", !.at = now,
                             !.ids = (Len(rollCalls) + 1) .. Len(table)]
    /\ UNCHANGED <<now, users, orgs, shiftTemplates, shiftAssignments, sessions,
                   leaves, deductions, txnVars>>

----------------------------------------------------------------------------
(* routers/admin.py: create_leave *)

\* the row without its id, which nothing reads
create_leave(admin_org_id, user_id, leave_date) ==
    /\ Cardinality(leaves) < MaxLeaves
    /\ leaves' = leaves \cup {[org_id |-> admin_org_id,
                               user_id |-> user_id,
                               date |-> leave_date]}
    /\ lastCall' = [NoCall EXCEPT !.op = "leave"]
    /\ UNCHANGED <<now, users, orgs, shiftTemplates, shiftAssignments, sessions,
                   rollCalls, deductions, txnVars>>

----------------------------------------------------------------------------
(* services/attendance.py: create_rollcall_deduction *)

\* mutant: the minutes are rounded down
ceil_div_Floor(a, b) == a \div b

\* math.ceil(a / b) for a >= 0
ceil_div(a, b) == (a + b - 1) \div b

\* the primary key the database gives to a new row of table
NextId(table) ==
    IF table = <<>> THEN 1
    ELSE 1 + (CHOOSE m \in {table[i].id : i \in DOMAIN table} :
                 \A i \in DOMAIN table : table[i].id <= m)

create_rollcall_deduction(table, roll_call, user_id, delay_seconds) ==
    Append(table, [id |-> NextId(table),
                   org_id |-> roll_call.org_id,
                   user_id |-> user_id,
                   date |-> Date(roll_call.triggered_at),
                   type |-> "ROLLCALL",
                   minutes |-> ceil_div(delay_seconds, SecondsPerMinute),
                   description |-> [text |-> "Roll-call late response",
                                    session_ids |-> <<>>],
                   related_roll_call_id |-> roll_call.id])

----------------------------------------------------------------------------
(* services/attendance.py: the day summary *)

ALLOWED_LUNCH_MINUTES == 60
ALLOWED_SHORT_BREAK_MINUTES == 30
MinutesPerHour == 60
MaxCreditedHours == 8

\* mutant: a session that overlaps a window counts up to its own end
RECURSIVE OverlapMinutes_ToSessionEnd(_, _, _, _)
OverlapMinutes_ToSessionEnd(start, effective_end, windows, k) ==
    IF k > Len(windows) THEN 0
    ELSE LET overlap_start == Max2(start, windows[k].start_utc)
             overlap_end == Min2(effective_end, windows[k].end_utc)
         IN  (IF overlap_end <= overlap_start THEN 0
              ELSE Max2(0, (effective_end - overlap_start) \div SecondsPerMinute))
             + OverlapMinutes_ToSessionEnd(start, effective_end, windows, k + 1)

\* the loop of lines 143-148 over windows[k..]
RECURSIVE OverlapMinutes(_, _, _, _)
OverlapMinutes(start, effective_end, windows, k) ==
    IF k > Len(windows) THEN 0
    ELSE LET overlap_start == Max2(start, windows[k].start_utc)
             overlap_end == Min2(effective_end, windows[k].end_utc)
         IN  (IF overlap_end <= overlap_start THEN 0
              ELSE Max2(0, (overlap_end - overlap_start) \div SecondsPerMinute))
             + OverlapMinutes(start, effective_end, windows, k + 1)

\* mutant: a session that runs past the end of the window is not counted
minutes_in_windows_InsideOnly(start, end, windows, t) ==
    LET effective_end == IF end = Null THEN t ELSE end
    IN  IF \E k \in DOMAIN windows : effective_end <= windows[k].end_utc
        THEN OverlapMinutes(start, effective_end, windows, 1)
        ELSE 0

minutes_in_windows(start, end, windows, t) ==
    IF windows = <<>> THEN 0
    ELSE OverlapMinutes(start, IF end = Null THEN t ELSE end, windows, 1)

\* the query of lines 18-27: the sessions of the user started on the date
SessionsOfDay(user_id, target_date) ==
    SelectSeq(sessions,
              LAMBDA x : x.user_id = user_id /\ Date(x.started_at) = target_date)

\* the loop of lines 32-42 over day_sessions[k..], for one session type
RECURSIVE MinutesOfType(_, _, _, _, _)
MinutesOfType(day_sessions, k, session_type, shift_windows, t) ==
    IF k > Len(day_sessions) THEN 0
    ELSE LET session == day_sessions[k]
             minutes == minutes_in_windows(session.started_at, session.ended_at,
                                           shift_windows, t)
         IN  (IF minutes <= 0 \/ session.session_type # session_type THEN 0 ELSE minutes)
             + MinutesOfType(day_sessions, k + 1, session_type, shift_windows, t)

\* mutant: the query does not filter on the date of the deduction
RECURSIVE SumRollcallMinutes_AnyDate(_, _, _, _)
SumRollcallMinutes_AnyDate(table, k, user_id, target_date) ==
    IF k > Len(table) THEN 0
    ELSE (IF table[k].user_id = user_id /\ table[k].type = "ROLLCALL"
          THEN table[k].minutes ELSE 0)
         + SumRollcallMinutes_AnyDate(table, k + 1, user_id, target_date)

\* the query of lines 48-56 and the sum of line 57
RECURSIVE SumRollcallMinutes(_, _, _, _)
SumRollcallMinutes(table, k, user_id, target_date) ==
    IF k > Len(table) THEN 0
    ELSE (IF /\ table[k].user_id = user_id
             /\ table[k].date = target_date
             /\ table[k].type = "ROLLCALL"
          THEN table[k].minutes ELSE 0)
         + SumRollcallMinutes(table, k + 1, user_id, target_date)

\* mutant: lunch and short break share one allowance of 90 minutes
DaySummary_PooledAllowance(table, user_id, target_date, t) ==
    LET day_sessions == SessionsOfDay(user_id, target_date)
        shift_windows == get_shift_windows_for_day(user_id, target_date)
        work_minutes == MinutesOfType(day_sessions, 1, "WORK", shift_windows, t)
        lunch_minutes == MinutesOfType(day_sessions, 1, "LUNCH", shift_windows, t)
        short_break_minutes ==
            MinutesOfType(day_sessions, 1, "SHORT_BREAK", shift_windows, t)
        overbreak_minutes ==
            Max2(0, lunch_minutes + short_break_minutes
                    - (ALLOWED_LUNCH_MINUTES + ALLOWED_SHORT_BREAK_MINUTES))
        rollcall_deduction_minutes == SumRollcallMinutes(table, 1, user_id, target_date)
    IN  [work_minutes |-> work_minutes,
         lunch_minutes |-> lunch_minutes,
         short_break_minutes |-> short_break_minutes,
         overbreak_minutes |-> overbreak_minutes,
         rollcall_deduction_minutes |-> rollcall_deduction_minutes,
         net_minutes |-> Max2(0, Min2(MaxCreditedHours * MinutesPerHour, work_minutes)
                                    - (overbreak_minutes + rollcall_deduction_minutes))]

\* lines 18-61: the summary; net_minutes is net_hours * 60
DaySummary(table, user_id, target_date, t) ==
    LET day_sessions == SessionsOfDay(user_id, target_date)
        shift_windows == get_shift_windows_for_day(user_id, target_date)
        work_minutes == MinutesOfType(day_sessions, 1, "WORK", shift_windows, t)
        lunch_minutes == MinutesOfType(day_sessions, 1, "LUNCH", shift_windows, t)
        short_break_minutes ==
            MinutesOfType(day_sessions, 1, "SHORT_BREAK", shift_windows, t)
        over_lunch == Max2(0, lunch_minutes - ALLOWED_LUNCH_MINUTES)
        over_short == Max2(0, short_break_minutes - ALLOWED_SHORT_BREAK_MINUTES)
        overbreak_minutes == over_lunch + over_short
        rollcall_deduction_minutes == SumRollcallMinutes(table, 1, user_id, target_date)
    IN  [work_minutes |-> work_minutes,
         lunch_minutes |-> lunch_minutes,
         short_break_minutes |-> short_break_minutes,
         overbreak_minutes |-> overbreak_minutes,
         rollcall_deduction_minutes |-> rollcall_deduction_minutes,
         net_minutes |-> Max2(0, Min2(MaxCreditedHours * MinutesPerHour, work_minutes)
                                    - (overbreak_minutes + rollcall_deduction_minutes))]

\* lines 30-33: what the summary passes on to the reconciliation
SessionIdsOfDay(user_id, target_date) ==
    LET day_sessions == SessionsOfDay(user_id, target_date)
    IN  [k \in DOMAIN day_sessions |-> day_sessions[k].id]

OrgIdOfDay(user_id, target_date) ==
    IF SessionsOfDay(user_id, target_date) = <<>> THEN Null
    ELSE SessionsOfDay(user_id, target_date)[1].org_id

\* mutant: the query does not filter on the type of the deduction
ExistingOverbreak_AnyType(table, user_id, target_date) ==
    {table[k].id : k \in {j \in DOMAIN table : /\ table[j].user_id = user_id
                                              /\ table[j].date = target_date}}

\* the query of lines 90-98: the ids of the OVERBREAK rows of the day
ExistingOverbreak(table, user_id, target_date) ==
    {table[k].id : k \in {j \in DOMAIN table : /\ table[j].user_id = user_id
                                              /\ table[j].date = target_date
                                              /\ table[j].type = "OVERBREAK"}}

OverbreakDescription(session_ids) ==
    [text |-> IF session_ids # <<>> THEN "Overbreak accrued from sessions"
              ELSE "Overbreak accrued",
     session_ids |-> session_ids]

NewOverbreak(table, user_id, org_id, target_date, minutes, session_ids) ==
    [id |-> NextId(table),
     org_id |-> org_id,
     user_id |-> user_id,
     date |-> target_date,
     type |-> "OVERBREAK",
     minutes |-> minutes,
     description |-> OverbreakDescription(session_ids),
     related_roll_call_id |-> Null]

\* mutant: the stale row is left in the table
DeleteRow_Keep(table, id) == table

\* db.delete of the row with primary key id
DeleteRow(table, id) == SelectSeq(table, LAMBDA row : row.id # id)

\* mutant: the update adds the minutes to those the row holds
UpdateOverbreak_Accumulate(table, id, minutes, session_ids) ==
    [k \in DOMAIN table |->
        IF table[k].id = id
        THEN [table[k] EXCEPT !.minutes = @ + minutes,
                              !.description = OverbreakDescription(session_ids)]
        ELSE table[k]]

\* the UPDATE of lines 107-108 on the row with primary key id
UpdateOverbreak(table, id, minutes, session_ids) ==
    [k \in DOMAIN table |->
        IF table[k].id = id
        THEN [table[k] EXCEPT !.minutes = minutes,
                              !.description = OverbreakDescription(session_ids)]
        ELSE table[k]]

\* mutant: the row is added without looking at the one the query found
ReconcileOverbreak_AlwaysInsert(table, existing, request) ==
    IF request.minutes <= 0
    THEN IF existing = {} THEN table
         ELSE DeleteRow(table, CHOOSE id \in existing : TRUE)
    ELSE Append(table, NewOverbreak(table, request.user_id, request.org_id,
                                    request.target_date, request.minutes,
                                    request.session_ids))

\* lines 99-120 given the ids `existing` that the query returned (one at
\* most): the table after the commit
ReconcileOverbreak(table, existing, request) ==
    IF request.minutes <= 0
    THEN IF existing = {} THEN table
         ELSE DeleteRow(table, CHOOSE id \in existing : TRUE)
    ELSE IF existing # {}
         THEN UpdateOverbreak(table, CHOOSE id \in existing : TRUE,
                              request.minutes, request.session_ids)
         ELSE Append(table, NewOverbreak(table, request.user_id, request.org_id,
                                         request.target_date, request.minutes,
                                         request.session_ids))

\* what build_summary_for_day passes to _sync_overbreak_deduction (line 64)
SyncRequest(user_id, target_date, summary) ==
    [user_id |-> user_id,
     org_id |-> OrgIdOfDay(user_id, target_date),
     target_date |-> target_date,
     minutes |-> summary.overbreak_minutes,
     session_ids |-> SessionIdsOfDay(user_id, target_date)]

\* the answer of a summary call
NoSummary == [error |-> "MultipleResultsFound"]
ZoneNotFound == [error |-> "ZoneInfoNotFoundError"]

\* what the caller's previous call returned, when that was a summary of the
\* same user and date that no other call has followed
NoPrior == [at |-> Null]

PriorSummary(user_id, target_date) ==
    IF /\ lastCall.op = "summary"
       /\ lastCall.result = "ok"
       /\ lastCall.user = user_id
       /\ lastCall.date = target_date
    THEN [at |-> lastCall.at, summary |-> lastCall.summary]
    ELSE NoPrior

SummaryCall(user_id, target_date, result, summary) ==
    [op |-> "summary", at |-> now, user |-> user_id, date |-> target_date,
     id |-> Null, result |-> result,
     ids |-> ExistingOverbreak(deductions, user_id, target_date),
     summary |-> summary, prior |-> PriorSummary(user_id, target_date)]

\* get_shift_windows_for_day (line 28) raises on a time zone name that is not in
\* the zone database, and Query.one_or_none() raises MultipleResultsFound on
\* two rows: the request fails and nothing is committed
build_summary_for_day(user_id, target_date) ==
    LET summary == DaySummary(deductions, user_id, target_date, now)
        existing == ExistingOverbreak(deductions, user_id, target_date)
    IN  /\ IF get_shift_windows_for_day_raises(user_id, target_date)
           THEN /\ lastCall' = SummaryCall(user_id, target_date, "error", ZoneNotFound)
                /\ UNCHANGED deductions
           ELSE IF Cardinality(existing) > 1
           THEN /\ lastCall' = SummaryCall(user_id, target_date, "error", NoSummary)
                /\ UNCHANGED deductions
           ELSE /\ deductions' = ReconcileOverbreak(deductions, existing,
                                      SyncRequest(user_id, target_date, summary))
                /\ lastCall' = SummaryCall(user_id, target_date, "ok", summary)
        /\ UNCHANGED <<now, users, orgs, shiftTemplates, shiftAssignments, sessions,
                       leaves, rollCalls, txnVars>>

----------------------------------------------------------------------------
(* routers/roll_calls.py: respond_roll_call *)

OnTimeSeconds == 300
NoRow == [id |-> Null]

\* mutant: the query does not filter on the responder
FindRollCall_AnyUser(table, roll_call_id, user_id) ==
    IF roll_call_id \in DOMAIN table THEN table[roll_call_id] ELSE NoRow

\* the query of lines 63-67
FindRollCall(table, roll_call_id, user_id) ==
    IF roll_call_id \in DOMAIN table /\ table[roll_call_id].user_id = user_id
    THEN table[roll_call_id] ELSE NoRow

\* mutant: a response is accepted whatever the result of the row is
RespondInvalid_AnyResult(roll_call) == roll_call = NoRow

RespondInvalid(roll_call) == roll_call = NoRow \/ roll_call.result # "PENDING"

\* mutant: a delay of exactly OnTimeSeconds is late
Responded_StrictLimit(roll_call, t) ==
    LET delay_seconds == t - roll_call.triggered_at
    IN  IF delay_seconds < OnTimeSeconds
        THEN [roll_call EXCEPT !.responded_at = t, !.result = "PASSED"]
        ELSE [roll_call EXCEPT !.responded_at = t, !.result = "LATE",
                               !.response_delay_seconds = delay_seconds - OnTimeSeconds]

\* lines 71-96: the row object after the handler has set its attributes (the
\* branches of lines 77 and 88 set the same attributes)
Responded(roll_call, t) ==
    LET delay_seconds == t - roll_call.triggered_at
    IN  IF delay_seconds <= OnTimeSeconds
        THEN [roll_call EXCEPT !.responded_at = t, !.result = "PASSED"]
        ELSE [roll_call EXCEPT !.responded_at = t, !.result = "LATE",
                               !.response_delay_seconds = delay_seconds - OnTimeSeconds]

\* the UPDATE the session flushes for the response: the attributes the handler
\* has set, on the row with that primary key
FlushResponse(table, updated) ==
    [table EXCEPT ![updated.id] = [@ EXCEPT !.responded_at = updated.responded_at,
                                            !.result = updated.result,
                                            !.response_delay_seconds =
                                                updated.response_delay_seconds]]

\* mutant: every accepted response is charged
DeductionsAfter_AnyResult(table, updated, user_id) ==
    create_rollcall_deduction(table, updated, user_id,
                              Max2(0, updated.response_delay_seconds))

\* lines 77-96: the deductions table after the response
DeductionsAfter(table, updated, user_id) ==
    IF updated.result = "LATE"
    THEN create_rollcall_deduction(table, updated, user_id, updated.response_delay_seconds)
    ELSE table

respond_roll_call(user_id, roll_call_id) ==
    LET roll_call == FindRollCall(rollCalls, roll_call_id, user_id)
        updated == Responded(roll_call, now)
    IN  /\ IF RespondInvalid(roll_call)
           THEN /\ lastCall' = [NoCall EXCEPT !.op = "respond", !.id = roll_call.id,
                                              !.result = "invalid"]
                /\ UNCHANGED <<rollCalls, deductions>>
           ELSE /\ rollCalls' = FlushResponse(rollCalls, updated)
                /\ deductions' = DeductionsAfter(deductions, updated, user_id)
                /\ lastCall' = [NoCall EXCEPT !.op = "respond", !.at = now,
                                   !.id = roll_call_id, !.result = updated.result]
        /\ UNCHANGED <<now, users, orgs, shiftTemplates, shiftAssignments, sessions,
                       leaves, txnVars>>

----------------------------------------------------------------------------
(* services/rollcall_scheduler.py: expire_roll_calls *)

\* mutant: a roll-call expires at its deadline
PendingExpired_AtDeadline(table, t) ==
    {i \in DOMAIN table : table[i].result = "PENDING" /\ table[i].deadline_at <= t}

\* the query of lines 118-122
PendingExpired(table, t) ==
    {i \in DOMAIN table : table[i].result = "PENDING" /\ table[i].deadline_at < t}

\* mutant: the sweep counts the rows and writes nothing
FlushMissed_NotWritten(table, ids) == table

\* the UPDATEs the session flushes for the sweep: result, on the rows it read
FlushMissed(table, ids) ==
    [i \in DOMAIN table |->
        IF i \in ids THEN [table[i] EXCEPT !.result = "MISSED"] ELSE table[i]]

expire_roll_calls ==
    /\ rollCalls' = FlushMissed(rollCalls, PendingExpired(rollCalls, now))
    /\ lastCall' = [NoCall EXCEPT !.op = "expire", !.at = now,
                       !.ids = PendingExpired(rollCalls, now)]
    /\ UNCHANGED <<now, users, orgs, shiftTemplates, shiftAssignments, sessions,
                   leaves, deductions, txnVars>>

SummaryFields ==
    {"work_minutes", "lunch_minutes", "short_break_minutes", "overbreak_minutes",
     "rollcall_deduction_minutes", "net_minutes"}

\* the loop of lines 75-83 from date current on, adding to aggregate
RECURSIVE SumDays(_, _, _, _)
SumDays(aggregate, user_id, current, window_end) ==
    IF current > window_end THEN aggregate
    ELSE LET daily == DaySummary(deductions, user_id, current, now)
         IN  SumDays([field \in SummaryFields |-> aggregate[field] + daily[field]],
                     user_id, current + 1, window_end)

\* mutant: the window runs from start_date to end_date as they were passed
RangeSummary_AsPassed(user_id, start_date, end_date) ==
    SumDays([field \in SummaryFields |-> 0], user_id, start_date, end_date)

\* lines 71-86; net_minutes is the sum of the days' net_hours * 60, which the
\* code rounds to two decimals of an hour
RangeSummary(user_id, start_date, end_date) ==
    LET window_start == Min2(start_date, end_date)
        window_end == Max2(start_date, end_date)
    IN  SumDays([field \in SummaryFields |-> 0], user_id, window_start, window_end)

build_summary_for_range(user_id, start_date, end_date) ==
    /\ lastCall' = [op |-> "range", at |-> now, user |-> user_id, id |-> Null,
                    result |-> "ok", ids |-> {},
                    start_date |-> start_date, end_date |-> end_date,
                    summary |-> RangeSummary(user_id, start_date, end_date)]
    /\ UNCHANGED <<now, dbVars, txnVars>>

----------------------------------------------------------------------------
(* routers/sessions.py *)

OpenSessions(user_id, session_types) ==
    {k \in DOMAIN sessions : /\ sessions[k].user_id = user_id
                             /\ sessions[k].ended_at = Null
                             /\ sessions[k].session_type \in session_types}

SessionTypes == {"WORK", "LUNCH", "SHORT_BREAK"}

\* _close_open_session: the table with the open sessions of the types ended at t
close_open_session(table, ids, t) ==
    [k \in DOMAIN table |->
        IF k \in ids THEN [table[k] EXCEPT !.ended_at = t] ELSE table[k]]

\* _start_session: the table with a new open session
start_session(table, user_id, session_type, t) ==
    Append(table, [id |-> Len(table) + 1,
                   org_id |-> users[user_id].org_id,
                   user_id |-> user_id,
                   started_at |-> t,
                   ended_at |-> Null,
                   session_type |-> session_type])

SessionFrame ==
    UNCHANGED <<now, users, orgs, shiftTemplates, shiftAssignments, leaves,
                rollCalls, deductions, txnVars>>

start_work(user_id) ==
    /\ Len(sessions) < MaxSessions
    /\ sessions' = start_session(
                       close_open_session(sessions, OpenSessions(user_id, SessionTypes), now),
                       user_id, "WORK", now)
    /\ lastCall' = [NoCall EXCEPT !.op = "start", !.result = "started"]
    /\ SessionFrame

\* stop_work, end_lunch and end_break: lines 87-103, 126-142, 165-181.
\* one_or_none() on two open rows of the type raises: nothing is committed
EndSession(user_id, session_type, ended) ==
    LET open == OpenSessions(user_id, {session_type})
    IN  /\ IF Cardinality(open) = 1
           THEN /\ sessions' = close_open_session(sessions, open, now)
                /\ lastCall' = [NoCall EXCEPT !.op = "end", !.result = ended]
           ELSE /\ UNCHANGED sessions
                /\ lastCall' = [NoCall EXCEPT !.op = "end",
                                   !.result = IF open = {} THEN "none_open" ELSE "error"]
        /\ SessionFrame

stop_work(user_id) == EndSession(user_id, "WORK", "stopped")
end_lunch(user_id) == EndSession(user_id, "LUNCH", "lunch_ended")
end_break(user_id) == EndSession(user_id, "SHORT_BREAK", "break_ended")

\* mutant: the pause starts with the work session left open
StartPause_KeepsWork(user_id, session_type, started) ==
    LET open_work == OpenSessions(user_id, {"WORK"})
    IN  /\ Len(sessions) < MaxSessions
        /\ IF Cardinality(open_work) = 1
           THEN /\ sessions' = start_session(sessions, user_id, session_type, now)
                /\ lastCall' = [NoCall EXCEPT !.op = "start", !.result = started]
           ELSE /\ UNCHANGED sessions
                /\ lastCall' = [NoCall EXCEPT !.op = "start",
                                   !.result = IF open_work = {} THEN "no_work" ELSE "error"]
        /\ SessionFrame

\* start_lunch and start_break: lines 106-123, 145-162
StartPause(user_id, session_type, started) ==
    LET open_work == OpenSessions(user_id, {"WORK"})
    IN  /\ Len(sessions) < MaxSessions
        /\ IF Cardinality(open_work) = 1
           THEN /\ sessions' = start_session(
                                   close_open_session(sessions, open_work, now),
                                   user_id, session_type, now)
                /\ lastCall' = [NoCall EXCEPT !.op = "start", !.result = started]
           ELSE /\ UNCHANGED sessions
                /\ lastCall' = [NoCall EXCEPT !.op = "start",
                                   !.result = IF open_work = {} THEN "no_work" ELSE "error"]
        /\ SessionFrame

start_lunch(user_id) == StartPause(user_id, "LUNCH", "lunch_started")
start_break(user_id) == StartPause(user_id, "SHORT_BREAK", "break_started")

----------------------------------------------------------------------------
(* routers/admin.py: delete_shift_assignment *)

delete_shift_assignment(admin_org_id, assignment_id) ==
    /\ shiftAssignments' =
          {a \in shiftAssignments :
              ~(a.id = assignment_id /\ TemplateOf(a).org_id = admin_org_id)}
    /\ lastCall' = [NoCall EXCEPT !.op = "unassign"]
    /\ UNCHANGED <<now, users, orgs, shiftTemplates, sessions, leaves, rollCalls,
                   deductions, txnVars>>

----------------------------------------------------------------------------
(* The clock *)

\* time passes; the answer of the last call has been delivered
Advance ==
    /\ \E t \in Instants : t > now /\ now' = t
    /\ lastCall' = NoCall
    /\ UNCHANGED <<dbVars, txnVars>>

----------------------------------------------------------------------------
(* The database the model starts from *)

\* user 4 may log sessions without a shift and has a time zone of their own
InitUsers ==
    [u \in UserIds |-> [org_id |-> IF u = 3 THEN 2 ELSE 1,
                        is_active |-> u # 5,
                        timezone |-> IF u = 4 THEN "America/New_York" ELSE NoZone,
                        allow_unassigned_sessions |-> u = 4]]

InitTemplates ==
    {[id |-> 1, org_id |-> 1, day_of_week |-> 0,
      start_time |-> TimeOfDay(22, 0), end_time |-> TimeOfDay(2, 0), timezone |-> "UTC"],
     [id |-> 2, org_id |-> 1, day_of_week |-> 0,
      start_time |-> TimeOfDay(23, 10), end_time |-> TimeOfDay(0, 0), timezone |-> NoZone],
     [id |-> 3, org_id |-> 2, day_of_week |-> 0,
      start_time |-> TimeOfDay(18, 0), end_time |-> TimeOfDay(19, 30),
      timezone |-> "America/New_York"]}

InitAssignments ==
    {[id |-> 1, shift_id |-> 1, user_id |-> 1, effective_from |-> FirstDay, effective_to |-> Null],
     [id |-> 2, shift_id |-> 1, user_id |-> 2, effective_from |-> 0, effective_to |-> Null],
     [id |-> 3, shift_id |-> 3, user_id |-> 3, effective_from |-> FirstDay, effective_to |-> Null],
     [id |-> 4, shift_id |-> 2, user_id |-> 4, effective_from |-> FirstDay, effective_to |-> Null],
     [id |-> 5, shift_id |-> 1, user_id |-> 5, effective_from |-> FirstDay, effective_to |-> Null],
     [id |-> 6, shift_id |-> 1, user_id |-> 6, effective_from |-> FirstDay, effective_to |-> Null]}

InitSession(id, u, session_type, ended_at) ==
    [id |-> id, org_id |-> InitUsers[u].org_id, user_id |-> u,
     started_at |-> FirstInstant - SecondsPerHour, ended_at |-> ended_at,
     session_type |-> session_type]

\* users 1..5 are at work; user 6 left for lunch half an hour ago
InitSessions ==
    <<InitSession(1, 1, "WORK", Null), InitSession(2, 2, "WORK", Null),
      InitSession(3, 3, "WORK", Null), InitSession(4, 4, "WORK", Null),
      InitSession(5, 5, "WORK", Null),
      InitSession(6, 6, "WORK", FirstInstant - TimeOfDay(0, 30)),
      [InitSession(7, 6, "LUNCH", Null) EXCEPT !.started_at = FirstInstant - TimeOfDay(0, 30)]>>

InitDb ==
    /\ users = InitUsers
    /\ \E v \in TargetSettings :
          orgs = [o \in OrgIds |->
                    [settings |-> [rollcalls_per_hour |-> IF o = 1 THEN v ELSE Null],
                     timezone |-> IF o = 1 THEN "UTC" ELSE NoZone]]
    /\ shiftTemplates = InitTemplates
    /\ shiftAssignments = InitAssignments
    /\ sessions = InitSessions
    /\ leaves = {}
    /\ rollCalls = <<>>
    /\ deductions = <<>>

NoTxn == [pc |-> "idle"]

Init ==
    /\ now = FirstInstant
    /\ InitDb
    /\ lastCall = NoCall
    /\ tickTxn = [p \in 1 .. 2 |-> NoTxn]
    /\ respondTxn = NoTxn
    /\ expireTxn = NoTxn
    /\ summaryTxn = [p \in 1 .. 2 |-> NoTxn]

\* the scheduler with the sessions and leaves it reads, one handler at a time
Next ==
    \/ Advance
    \/ rollcall_tick
    \/ \E o \in OrgIds, u \in LeaveUsers, d \in LeaveDates : create_leave(o, u, d)

Spec == Init /\ [][Next]_vars

----------------------------------------------------------------------------
(* Properties of the scheduler (checked under Spec) *)

HourOf(t) == t \div SecondsPerHour
TargetOf(o) == target_from_settings(orgs[o].settings)
MinGapSeconds == MIN_GAP_MINUTES * SecondsPerMinute
MaxGapSeconds == MAX_GAP_MINUTES * SecondsPerMinute

\* the roll-calls of organization o triggered in hour bucket h
BucketOf(o, h) ==
    {i \in DOMAIN rollCalls :
        rollCalls[i].org_id = o /\ HourOf(rollCalls[i].triggered_at) = h}

\* the bucket of the last tick, as it was before that tick
BucketBeforeTick(o) == BucketOf(o, HourOf(lastCall.at)) \ lastCall.ids

CreatedByTick(o) == {i \in lastCall.ids : rollCalls[i].org_id = o}

LatestTrigger(ids) ==
    IF ids = {} THEN Null
    ELSE LET m == CHOOSE i \in ids :
                    \A j \in ids : rollCalls[j].triggered_at <= rollCalls[i].triggered_at
         IN  rollCalls[m].triggered_at

AfterTick == lastCall.op = "tick"

\* C3: in every hour bucket an organization has at most its clamped target
\* number of roll-calls.
C3_HourlyCap ==
    \A i \in DOMAIN rollCalls :
        Cardinality(BucketOf(rollCalls[i].org_id, HourOf(rollCalls[i].triggered_at)))
            <= TargetOf(rollCalls[i].org_id)

\* a tick found the hour full and added nothing although an eligible user of
\* the organization had no roll-call yet
C3_Witness ==
    /\ AfterTick
    /\ \E o \in OrgIds :
          /\ CreatedByTick(o) = {}
          /\ Cardinality(BucketBeforeTick(o)) = TargetOf(o)
          /\ \E u \in get_active_users(o, lastCall.at) :
                \A i \in BucketBeforeTick(o) : rollCalls[i].user_id # u

\* C4: no user has two roll-calls triggered in the same hour bucket.
C4_OnePerUserPerHour ==
    \A i, j \in DOMAIN rollCalls :
        (/\ i # j
         /\ rollCalls[i].user_id = rollCalls[j].user_id
         /\ HourOf(rollCalls[i].triggered_at) = HourOf(rollCalls[j].triggered_at))
        => FALSE

\* a tick had room below the target and time left in the hour, but every
\* eligible user was already covered, so it added nothing
C4_Witness ==
    /\ AfterTick
    /\ \E o \in OrgIds :
          LET before == BucketBeforeTick(o)
              active == get_active_users(o, lastCall.at)
          IN  /\ CreatedByTick(o) = {}
              /\ before # {}
              /\ Cardinality(before) < TargetOf(o)
              /\ active # {}
              /\ \A u \in active : \E i \in before : rollCalls[i].user_id = u
              /\ latest_allowed_start(lastCall.at)
                     - Anchor(LatestTrigger(before), lastCall.at) > MinGapSeconds

Distance(a, b) == IF a >= b THEN a - b ELSE b - a

\* C6: two roll-calls of one organization in one hour bucket are triggered at
\* least MIN_GAP_MINUTES apart.
C6_MinGap ==
    \A i, j \in DOMAIN rollCalls :
        (/\ i # j
         /\ rollCalls[i].org_id = rollCalls[j].org_id
         /\ HourOf(rollCalls[i].triggered_at) = HourOf(rollCalls[j].triggered_at))
        => Distance(rollCalls[i].triggered_at, rollCalls[j].triggered_at) >= MinGapSeconds

\* a tick added a roll-call to an hour whose latest roll-call was still ahead of
\* now, exactly the minimum gap after it
C6_Witness ==
    /\ AfterTick
    /\ \E o \in OrgIds :
          /\ BucketBeforeTick(o) # {}
          /\ LatestTrigger(BucketBeforeTick(o)) > lastCall.at
          /\ \E j \in CreatedByTick(o) :
                rollCalls[j].triggered_at
                    = LatestTrigger(BucketBeforeTick(o)) + MinGapSeconds

\* the roll-calls of j's organization and hour that are triggered before j
EarlierInBucket(j) ==
    {i \in BucketOf(rollCalls[j].org_id, HourOf(rollCalls[j].triggered_at)) :
        rollCalls[i].triggered_at < rollCalls[j].triggered_at}

\* C7 (as claimed): consecutive roll-calls of one organization in one hour
\* bucket are at most MAX_GAP_MINUTES apart, whichever ticks created them.
C7_MaxGapConsecutive ==
    \A j \in DOMAIN rollCalls :
        EarlierInBucket(j) # {}
        => rollCalls[j].triggered_at - LatestTrigger(EarlierInBucket(j)) <= MaxGapSeconds

\* C7 (amended): a roll-call that a tick adds to an hour that already has an
\* earlier roll-call is triggered at most MAX_GAP_MINUTES after the later of
\* that earlier trigger and the tick's now.
C7_MaxGapFromAnchor ==
    AfterTick =>
        \A j \in lastCall.ids :
            EarlierInBucket(j) # {}
            => rollCalls[j].triggered_at
                   - Max2(LatestTrigger(EarlierInBucket(j)), lastCall.at) <= MaxGapSeconds

\* a later tick added a roll-call more than the maximum gap after the previous
\* roll-call of the hour
C7_Witness ==
    /\ AfterTick
    /\ \E j \in lastCall.ids :
          /\ EarlierInBucket(j) # {}
          /\ EarlierInBucket(j) \cap lastCall.ids = {}
          /\ rollCalls[j].triggered_at - LatestTrigger(EarlierInBucket(j)) > MaxGapSeconds

\* the tick ran for organization o when its hour had no roll-call yet and some
\* user was eligible
FirstTickOfHour(o) ==
    /\ o \in TickOrgIds
    /\ BucketBeforeTick(o) = {}
    /\ get_active_users(o, lastCall.at) # {}

\* C8 (as claimed): such a tick creates a roll-call triggered exactly at now,
\* at whatever minute of the hour it runs.
C8_FirstAtNowAlways ==
    AfterTick =>
        \A o \in OrgIds :
            FirstTickOfHour(o)
            => \E i \in CreatedByTick(o) : rollCalls[i].triggered_at = lastCall.at

\* C8 (amended): such a tick creates a roll-call triggered exactly at now when
\* now is not later than end_of_hour - 5 minutes, and creates none when it is.
C8_FirstAtNowWhenRoom ==
    AfterTick =>
        \A o \in OrgIds :
            FirstTickOfHour(o)
            => IF lastCall.at <= latest_allowed_start(lastCall.at)
               THEN \E i \in CreatedByTick(o) : rollCalls[i].triggered_at = lastCall.at
               ELSE CreatedByTick(o) = {}

\* the first tick of an hour ran at the last allowed instant and created a
\* roll-call at that instant
C8_Witness ==
    /\ AfterTick
    /\ lastCall.at = latest_allowed_start(lastCall.at)
    /\ \E o \in OrgIds :
          /\ FirstTickOfHour(o)
          /\ \E i \in CreatedByTick(o) : rollCalls[i].triggered_at = lastCall.at

\* C9: a roll-call is created PENDING, with its deadline one response window
\* after its trigger, triggered inside the hour of the tick's now and early
\* enough for the window to end within that hour.
C9_CreatedWithinHour ==
    AfterTick =>
        \A i \in lastCall.ids :
            /\ rollCalls[i].result = "PENDING"
            /\ rollCalls[i].deadline_at
                   = rollCalls[i].triggered_at + RESPONSE_WINDOW_MINUTES * SecondsPerMinute
            /\ rollCalls[i].triggered_at >= start_of_hour(lastCall.at)
            /\ rollCalls[i].triggered_at
                   <= end_of_hour(lastCall.at) - RESPONSE_WINDOW_MINUTES * SecondsPerMinute
            /\ rollCalls[i].deadline_at <= end_of_hour(lastCall.at)

\* a tick created a roll-call whose response window ends with the hour
C9_Witness ==
    /\ AfterTick
    /\ \E i \in lastCall.ids : rollCalls[i].deadline_at = end_of_hour(lastCall.at)

\* C10: a tick creates roll-calls only for users of the organization who are
\* active, have no Leave dated today, have an open WORK session and are inside
\* a shift window.
C10_OnlyEligibleUsers ==
    AfterTick =>
        \A i \in lastCall.ids :
            LET u == rollCalls[i].user_id
                t == lastCall.at
            IN  /\ users[u].org_id = rollCalls[i].org_id
                /\ users[u].is_active
                /\ ~\E l \in leaves : l.user_id = u /\ l.date = Date(t)
                /\ \E k \in DOMAIN sessions :
                      /\ sessions[k].user_id = u
                      /\ sessions[k].session_type = "WORK"
                      /\ sessions[k].started_at <= t
                      /\ sessions[k].ended_at = Null
                /\ \E w \in Range(windows_for_assignments(u, t)) : contains(w, t)

----------------------------------------------------------------------------
(* The roll-call lifecycle: ticks, responses and sweeps, one after another *)

\* organization 1 asks for one roll-call an hour
InitOneAnHour == Init /\ orgs[1].settings.rollcalls_per_hour = 1

\* the clock inside one hour bucket
AdvanceWithinHour == Advance /\ HourOf(now') = HourOf(now)

\* time passes within the hour while the caller holds the answer of the last
\* call
WaitWithinHour ==
    /\ \E t \in Instants : t > now /\ HourOf(t) = HourOf(now) /\ now' = t
    /\ UNCHANGED <<dbVars, lastCall, txnVars>>

NextLifecycle ==
    \/ AdvanceWithinHour
    \/ rollcall_tick
    \/ \E u \in Responders, id \in 1 .. (Len(rollCalls) + 1) : respond_roll_call(u, id)
    \/ expire_roll_calls

SpecLifecycle == InitOneAnHour /\ [][NextLifecycle]_vars

\* C1: the result of a roll-call changes at most once: from PENDING to PASSED
\* or LATE by a response, or from PENDING to MISSED by the sweep; a result of
\* PASSED, LATE or MISSED is never changed by a later operation.
C1_ResultChangesOnce ==
    [][\A i \in DOMAIN rollCalls :
          /\ i \in DOMAIN rollCalls'
          /\ rollCalls[i].result # "PENDING"
                => rollCalls'[i].result = rollCalls[i].result
          /\ rollCalls'[i].result # rollCalls[i].result
                => \/ /\ lastCall'.op = "respond"
                      /\ rollCalls'[i].result \in {"PASSED", "LATE"}
                   \/ /\ lastCall'.op = "expire"
                      /\ rollCalls'[i].result = "MISSED"]_vars

\* the user answered a roll-call of theirs that the sweep had already marked
\* MISSED, and the answer was rejected
C1_Witness ==
    /\ lastCall.op = "respond"
    /\ lastCall.result = "invalid"
    /\ lastCall.id # Null
    /\ rollCalls[lastCall.id].result = "MISSED"

----------------------------------------------------------------------------
(* A response and a sweep as two requests, each with its own session: the    *)
(* read of a request and its commit are separate steps.                      *)

\* lines 63-96 of respond_roll_call: the query, the check and the attributes
\* set on the row object
RespondRead(user_id, roll_call_id) ==
    LET roll_call == FindRollCall(rollCalls, roll_call_id, user_id)
    IN  /\ respondTxn.pc # "read"
        /\ IF RespondInvalid(roll_call)
           THEN /\ respondTxn' = [pc |-> "done", valid |-> FALSE]
                /\ lastCall' = [NoCall EXCEPT !.op = "respond", !.id = roll_call.id,
                                              !.result = "invalid"]
           ELSE /\ respondTxn' = [pc |-> "read", valid |-> TRUE, user_id |-> user_id,
                                  read |-> roll_call,
                                  updated |-> Responded(roll_call, now)]
                /\ UNCHANGED lastCall
        /\ UNCHANGED <<now, dbVars, tickTxn, expireTxn, summaryTxn>>

\* the commit of respond_roll_call (attendance.py line 135, roll_calls.py line 99)
RespondCommit ==
    /\ respondTxn.pc = "read"
    /\ rollCalls' = FlushResponse(rollCalls, respondTxn.updated)
    /\ deductions' = DeductionsAfter(deductions, respondTxn.updated, respondTxn.user_id)
    /\ respondTxn' = [respondTxn EXCEPT !.pc = "done"]
    /\ lastCall' = [NoCall EXCEPT !.op = "respond",
                       !.at = respondTxn.updated.responded_at,
                       !.id = respondTxn.updated.id,
                       !.result = respondTxn.updated.result]
    /\ UNCHANGED <<now, users, orgs, shiftTemplates, shiftAssignments, sessions,
                   leaves, tickTxn, expireTxn, summaryTxn>>

\* lines 117-124 of expire_roll_calls: the query and the attribute set on each row
ExpireRead ==
    /\ expireTxn.pc # "read"
    /\ expireTxn' = [pc |-> IF PendingExpired(rollCalls, now) = {} THEN "done" ELSE "read",
                     at |-> now,
                     ids |-> PendingExpired(rollCalls, now)]
    /\ IF PendingExpired(rollCalls, now) = {}
       THEN lastCall' = [NoCall EXCEPT !.op = "expire", !.at = now]
       ELSE UNCHANGED lastCall
    /\ UNCHANGED <<now, dbVars, tickTxn, respondTxn, summaryTxn>>

\* the commit of expire_roll_calls (lines 125-126)
ExpireCommit ==
    /\ expireTxn.pc = "read"
    /\ rollCalls' = FlushMissed(rollCalls, expireTxn.ids)
    /\ expireTxn' = [expireTxn EXCEPT !.pc = "done"]
    /\ lastCall' = [NoCall EXCEPT !.op = "expire", !.at = expireTxn.at,
                       !.ids = expireTxn.ids]
    /\ UNCHANGED <<now, users, orgs, shiftTemplates, shiftAssignments, sessions,
                   leaves, deductions, tickTxn, respondTxn, summaryTxn>>

NextRace ==
    \/ AdvanceWithinHour
    \/ rollcall_tick
    \/ \E u \in Responders, id \in 1 .. (Len(rollCalls) + 1) : RespondRead(u, id)
    \/ RespondCommit
    \/ ExpireRead
    \/ ExpireCommit

SpecRace == InitOneAnHour /\ [][NextRace]_vars

\* the response and the sweep have both ended, and both had read roll-call i
\* PENDING after its deadline
RacedOn(i) ==
    /\ respondTxn.pc = "done"
    /\ expireTxn.pc = "done"
    /\ respondTxn.valid
    /\ respondTxn.read.id = i
    /\ respondTxn.updated.responded_at > respondTxn.read.deadline_at
    /\ i \in expireTxn.ids

HasRollCallDeduction(i) ==
    \E k \in DOMAIN deductions :
        deductions[k].type = "ROLLCALL" /\ deductions[k].related_roll_call_id = i

\* C2: when a response and a sweep run interleaved on one PENDING roll-call
\* past its deadline, a result that one of them has written is not overwritten
\* by the other, which leaves the record unchanged, and at the end a ROLLCALL
\* deduction for the roll-call exists only if its result is LATE.
C2_ExactlyOneWins ==
    /\ [][\A i \in DOMAIN rollCalls :
             rollCalls[i].result # "PENDING" => rollCalls'[i] = rollCalls[i]]_vars
    /\ [](\A i \in DOMAIN rollCalls :
             (RacedOn(i) /\ HasRollCallDeduction(i)) => rollCalls[i].result = "LATE")

----------------------------------------------------------------------------
(* Two rollcall_tick requests at once, each with its own session: a call of  *)
(* schedule_roll_calls_for_current_hour reads, then inserts and commits.     *)

TickProcs == 1 .. 2

\* lines 109-116 of rollcall_tick: the organizations to schedule for (each
\* of the two requests runs once)
TickBegin(p) ==
    /\ tickTxn[p].pc = "idle"
    /\ tickTxn' = [tickTxn EXCEPT ![p] =
                      [pc |-> IF TickOrgIds = {} THEN "done" ELSE "loop",
                       org_ids |-> SortInts(TickOrgIds), k |-> 1, ids |-> {}]]
    /\ UNCHANGED <<now, dbVars, lastCall, respondTxn, expireTxn, summaryTxn>>

\* lines 46-66 of the scheduler for the next organization of the loop
TickRead(p) ==
    /\ tickTxn[p].pc = "loop"
    /\ tickTxn' = [tickTxn EXCEPT ![p] =
                      [pc |-> "read",
                       org_ids |-> tickTxn[p].org_ids, k |-> tickTxn[p].k,
                       ids |-> tickTxn[p].ids,
                       read |-> ReadForSchedule(rollCalls,
                                                tickTxn[p].org_ids[tickTxn[p].k], now)]]
    /\ UNCHANGED <<now, dbVars, lastCall, respondTxn, expireTxn, summaryTxn>>

\* lines 63-113 of the scheduler on what was read, up to the commit, and the
\* step of the loop of rollcall_tick
TickCommit(p) ==
    LET txn == tickTxn[p]
        target == target_from_settings(orgs[txn.read.org_id].settings)
        ids == txn.ids \cup ((Len(rollCalls) + 1) .. Len(rollCalls'))
        last == txn.k >= Len(txn.org_ids)
    IN  /\ txn.pc = "read"
        /\ \E scheduled \in ScheduleFrom(txn.read, clamp_rollcall_target(PyInt(target))) :
              rollCalls' = InsertAll(rollCalls, scheduled)
        /\ tickTxn' = [tickTxn EXCEPT ![p] =
                          [pc |-> IF last THEN "done" ELSE "loop",
                           org_ids |-> txn.org_ids, k |-> txn.k + 1, ids |-> ids]]
        /\ lastCall' = IF last
                       THEN [NoCall EXCEPT !.op = "tick", !.at = txn.read.at, !.ids = ids]
                       ELSE lastCall
        /\ UNCHANGED <<now, users, orgs, shiftTemplates, shiftAssignments, sessions,
                       leaves, deductions, respondTxn, expireTxn, summaryTxn>>

NextTicks ==
    \/ AdvanceWithinHour
    \/ \E p \in TickProcs : TickBegin(p)
    \/ \E p \in TickProcs : TickRead(p)
    \/ \E p \in TickProcs : TickCommit(p)

SpecTicks == InitOneAnHour /\ [][NextTicks]_vars

\* C5: with two ticks running at once, an organization still has at most its
\* target number of roll-calls in an hour bucket and no user has two
\* roll-calls in one bucket.
C5_ConcurrentTicksAtomic ==
    \A o \in OrgIds, h \in {HourOf(t) : t \in Instants} :
        /\ Cardinality(BucketOf(o, h)) <= TargetOf(o)
        /\ \A i, j \in BucketOf(o, h) :
              rollCalls[i].user_id = rollCalls[j].user_id => i = j

----------------------------------------------------------------------------
(* Responses and sweeps around the deadline: the clock steps through the     *)
(* seconds at which a response or a sweep changes its answer.                *)

\* seconds after FirstInstant: the trigger, the deadline, one second past it,
\* and the deadline of a roll-call triggered a minimum gap later
DeadlineOffsets == {0, 300, 301, 600}
DeadlineInstants == {FirstInstant + off : off \in DeadlineOffsets}

AdvanceToDeadline ==
    /\ \E t \in DeadlineInstants : t > now /\ now' = t
    /\ lastCall' = NoCall
    /\ UNCHANGED <<dbVars, txnVars>>

NextResponses ==
    \/ AdvanceToDeadline
    \/ rollcall_tick
    \/ \E u \in Responders, id \in 1 .. (Len(rollCalls) + 1) : respond_roll_call(u, id)
    \/ expire_roll_calls

SpecResponses == Init /\ [][NextResponses]_vars

\* C11: the sweep sets every PENDING roll-call whose deadline is strictly
\* before now to MISSED and counts it once; every other roll-call is left as
\* it was and is not counted; a second sweep at the same now counts nothing
\* and changes nothing.
C11_ExpireSweep ==
    [][lastCall'.op = "expire" =>
          /\ DOMAIN rollCalls' = DOMAIN rollCalls
          /\ \A i \in DOMAIN rollCalls :
                IF rollCalls[i].result = "PENDING" /\ rollCalls[i].deadline_at < now
                THEN /\ rollCalls'[i] = [rollCalls[i] EXCEPT !.result = "MISSED"]
                     /\ i \in lastCall'.ids
                ELSE /\ rollCalls'[i] = rollCalls[i]
                     /\ i \notin lastCall'.ids
          /\ deductions' = deductions
          /\ (lastCall.op = "expire" /\ lastCall.at = now)
                => (lastCall'.ids = {} /\ rollCalls' = rollCalls)]_vars

\* a sweep marked a roll-call MISSED, left one PENDING whose deadline is
\* exactly now, and left an answered one as it was
C11_Witness ==
    /\ lastCall.op = "expire"
    /\ lastCall.ids # {}
    /\ \A i \in lastCall.ids : rollCalls[i].result = "MISSED"
    /\ \E i \in DOMAIN rollCalls :
          rollCalls[i].result = "PENDING" /\ rollCalls[i].deadline_at = lastCall.at
    /\ \E i \in DOMAIN rollCalls :
          rollCalls[i].result \in {"PASSED", "LATE"} /\ rollCalls[i].deadline_at < lastCall.at

\* the delay of a response to roll-call i given now
DelayOf(i) == now - rollCalls[i].triggered_at

\* the step is an accepted response
AcceptedResponse == lastCall'.op = "respond" /\ lastCall'.result # "invalid"

\* C12: an accepted response with delay d gives PASSED, no deduction and no
\* response_delay_seconds when d <= 300, and LATE with response_delay_seconds
\* = d - 300 when d > 300; d = 301 gives a delay of 1 and a 1-minute ROLLCALL
\* deduction.
C12_Classification ==
    [][AcceptedResponse =>
          LET i == lastCall'.id
              d == DelayOf(i)
          IN  /\ rollCalls[i].result = "PENDING"
              /\ rollCalls'[i].responded_at = now
              /\ IF d <= OnTimeSeconds
                 THEN /\ rollCalls'[i].result = "PASSED"
                      /\ rollCalls'[i].response_delay_seconds = Null
                      /\ deductions' = deductions
                 ELSE /\ rollCalls'[i].result = "LATE"
                      /\ rollCalls'[i].response_delay_seconds = d - OnTimeSeconds
              /\ d = OnTimeSeconds + 1
                    => /\ rollCalls'[i].response_delay_seconds = 1
                       /\ Len(deductions') = Len(deductions) + 1
                       /\ deductions'[Len(deductions')].type = "ROLLCALL"
                       /\ deductions'[Len(deductions')].minutes = 1]_vars

\* one roll-call was answered after exactly 300 seconds and PASSED, another
\* after 301 seconds and is LATE by one second
C12_Witness ==
    /\ lastCall.op = "respond"
    /\ \E i \in DOMAIN rollCalls :
          /\ rollCalls[i].result = "PASSED"
          /\ rollCalls[i].responded_at - rollCalls[i].triggered_at = OnTimeSeconds
    /\ \E j \in DOMAIN rollCalls :
          /\ rollCalls[j].result = "LATE"
          /\ rollCalls[j].responded_at - rollCalls[j].triggered_at = OnTimeSeconds + 1
          /\ rollCalls[j].response_delay_seconds = 1

\* the responder owns roll-call id and it is PENDING
OwnPending(u, id) ==
    /\ id \in DOMAIN rollCalls
    /\ rollCalls[id].user_id = u
    /\ rollCalls[id].result = "PENDING"

\* C13: a response more than 300 seconds after the trigger of a PENDING
\* roll-call is LATE, before or after the deadline, and appends exactly one
\* ROLLCALL deduction of ceil((delay - 300) / 60) minutes for the user, dated
\* on the day of the trigger and linked to the roll-call.
C13_LateDeduction ==
    [][\A u \in Responders, id \in DOMAIN rollCalls :
          (/\ respond_roll_call(u, id)
           /\ OwnPending(u, id)
           /\ DelayOf(id) > OnTimeSeconds)
          => LET excess == DelayOf(id) - OnTimeSeconds
                 added == deductions'[Len(deductions')]
             IN  /\ lastCall'.result = "LATE"
                 /\ rollCalls'[id].result = "LATE"
                 /\ Len(deductions') = Len(deductions) + 1
                 /\ SubSeq(deductions', 1, Len(deductions)) = deductions
                 /\ added.type = "ROLLCALL"
                 /\ added.user_id = u
                 /\ added.date = Date(rollCalls[id].triggered_at)
                 /\ added.related_roll_call_id = id
                 /\ added.minutes * SecondsPerMinute >= excess
                 /\ (added.minutes - 1) * SecondsPerMinute < excess]_vars

\* a response after the deadline was answered LATE and added a deduction of
\* several minutes for it
C13_Witness ==
    /\ lastCall.op = "respond"
    /\ lastCall.result = "LATE"
    /\ rollCalls[lastCall.id].responded_at > rollCalls[lastCall.id].deadline_at
    /\ \E k \in DOMAIN deductions :
          /\ deductions[k].related_roll_call_id = lastCall.id
          /\ deductions[k].minutes > 1

\* C14: a response naming an unknown id, a roll-call of another user or a
\* roll-call that is not PENDING is answered invalid and changes neither the
\* roll-calls nor the deductions.
C14_InvalidChangesNothing ==
    [][\A u \in Responders, id \in 1 .. (Len(rollCalls) + 1) :
          (respond_roll_call(u, id) /\ ~OwnPending(u, id))
          => /\ lastCall'.result = "invalid"
             /\ rollCalls' = rollCalls
             /\ deductions' = deductions]_vars

\* a response that matched no roll-call of the responder was answered invalid
\* while another user's roll-call was PENDING
C14_Witness ==
    /\ lastCall.op = "respond"
    /\ lastCall.result = "invalid"
    /\ lastCall.id = Null
    /\ \E i \in DOMAIN rollCalls :
          rollCalls[i].result = "PENDING" /\ rollCalls[i].user_id \notin Responders

----------------------------------------------------------------------------
(* The summarizer with the sessions, deductions and shifts it reads *)

NextSummary ==
    \/ WaitWithinHour
    \/ \E u \in SessionUsers : start_work(u)
    \/ \E u \in SessionUsers : stop_work(u)
    \/ \E u \in SessionUsers : start_lunch(u)
    \/ \E u \in SessionUsers : end_lunch(u)
    \/ \E u \in SessionUsers : start_break(u)
    \/ \E u \in SessionUsers : end_break(u)
    \/ \E o \in OrgIds, a \in UnassignIds : delete_shift_assignment(o, a)
    \/ \E u \in SummaryUsers, d \in SummaryDates : build_summary_for_day(u, d)

SpecSummary == InitOneAnHour /\ [][NextSummary]_vars

\* day summaries between roll-call responses, session starts and lunch ends
NextOverbreak ==
    \/ AdvanceWithinHour
    \/ rollcall_tick
    \/ \E u \in LateResponders, id \in DOMAIN rollCalls : respond_roll_call(u, id)
    \/ \E u \in SessionUsers : start_work(u)
    \/ \E u \in SessionUsers : end_lunch(u)
    \/ \E u \in SummaryUsers : build_summary_for_day(u, FirstDay)

SpecOverbreak == InitOneAnHour /\ [][NextOverbreak]_vars

\* the range summary over days with sessions, day summaries in between
NextRange ==
    \/ Advance
    \/ \E u \in SessionUsers : start_work(u)
    \/ \E u \in SessionUsers, d \in SummaryDates : build_summary_for_day(u, d)
    \/ \E u \in SessionUsers, d, e \in SummaryDates : build_summary_for_range(u, d, e)

SpecRange == InitOneAnHour /\ [][NextRange]_vars

----------------------------------------------------------------------------
(* build_summary_for_day split where its transaction reads and commits *)

SummaryProcs == 1 .. 2

\* lines 18-61 and the query of lines 90-98: the request computes the summary
\* and looks up the OVERBREAK row (each of the two requests runs once)
SummaryRead(p, user_id, target_date) ==
    LET summary == DaySummary(deductions, user_id, target_date, now)
        existing == ExistingOverbreak(deductions, user_id, target_date)
    IN  /\ summaryTxn[p].pc = "idle"
        /\ IF Cardinality(existing) > 1
           THEN /\ summaryTxn' = [summaryTxn EXCEPT ![p] = [pc |-> "done"]]
                /\ lastCall' = SummaryCall(user_id, target_date, "error", NoSummary)
           ELSE /\ summaryTxn' = [summaryTxn EXCEPT ![p] =
                                     [pc |-> "read", at |-> now, existing |-> existing,
                                      summary |-> summary,
                                      request |-> SyncRequest(user_id, target_date, summary)]]
                /\ UNCHANGED lastCall
        /\ UNCHANGED <<now, dbVars, tickTxn, respondTxn, expireTxn>>

\* lines 99-120 on what was read: the DELETE, the UPDATE by primary key or the
\* INSERT, and the commit
SummaryCommit(p) ==
    LET txn == summaryTxn[p]
    IN  /\ txn.pc = "read"
        /\ deductions' = ReconcileOverbreak(deductions, txn.existing, txn.request)
        /\ summaryTxn' = [summaryTxn EXCEPT ![p] = [pc |-> "done"]]
        /\ lastCall' = [SummaryCall(txn.request.user_id, txn.request.target_date,
                                    "ok", txn.summary)
                           EXCEPT !.at = txn.at, !.ids = txn.existing]
        /\ UNCHANGED <<now, users, orgs, shiftTemplates, shiftAssignments, sessions,
                       leaves, rollCalls, tickTxn, respondTxn, expireTxn>>

\* two dashboard requests of one user in flight, and the summaries that run
\* alone before and after them
NextConcurrentSummary ==
    \/ AdvanceWithinHour
    \/ \E p \in SummaryProcs, u \in SessionUsers : SummaryRead(p, u, FirstDay)
    \/ \E p \in SummaryProcs : SummaryCommit(p)
    \/ /\ \A p \in SummaryProcs : summaryTxn[p].pc # "read"
       /\ \E u \in SessionUsers : build_summary_for_day(u, FirstDay)

SpecConcurrentSummary == InitOneAnHour /\ [][NextConcurrentSummary]_vars

----------------------------------------------------------------------------
(* Claims about the OVERBREAK deduction *)

OverbreakRows(user_id, target_date) ==
    {k \in DOMAIN deductions : /\ deductions[k].user_id = user_id
                               /\ deductions[k].date = target_date
                               /\ deductions[k].type = "OVERBREAK"}

\* C15: after any sequence of day summaries that run one after the other,
\* session starts and stops and roll-call responses, there is at most one
\* OVERBREAK deduction per user and date.
C15_OneOverbreakRow ==
    \A u \in UserIds, d \in SummaryDates : Cardinality(OverbreakRows(u, d)) <= 1

\* a day summary has just rewritten the OVERBREAK row of a day that already had
\* one, after a lunch was ended and a roll-call response had cost a deduction
C15_Witness ==
    /\ lastCall.op = "summary"
    /\ lastCall.result = "ok"
    /\ \E k \in OverbreakRows(lastCall.user, lastCall.date) :
          /\ deductions[k].minutes = lastCall.summary.overbreak_minutes
          /\ \E j \in DOMAIN deductions : j > k /\ deductions[j].type = "ROLLCALL"
          /\ deductions[k].description.session_ids # <<6, 7>>
    /\ Len(sessions) > Len(InitSessions)

\* C16: when two day summaries of one user and date with positive overbreak
\* both look up the OVERBREAK row before either commits, there is still at most
\* one OVERBREAK row for that user and date, and a later summary of that day
\* still completes.
C16_ConcurrentUpsertAtomic ==
    /\ \A u \in UserIds, d \in SummaryDates : Cardinality(OverbreakRows(u, d)) <= 1
    /\ lastCall.op = "summary" => lastCall.result = "ok"

\* the caller's last call was a completed summary of the user and date, and no
\* other call has run since
JustSummarized(u, d) ==
    /\ lastCall.op = "summary"
    /\ lastCall.result = "ok"
    /\ lastCall.user = u
    /\ lastCall.date = d

\* the second call of two in a row returned what the first returned and left
\* the deductions as the first left them, one OVERBREAK row at most
SecondCallSame(u, d) ==
    /\ lastCall'.result = "ok"
    /\ lastCall'.summary = lastCall.summary
    /\ deductions' = deductions
    /\ Cardinality(ExistingOverbreak(deductions', u, d)) <= 1

NoOpenSession(u, d) ==
    \A k \in DOMAIN sessions :
        (sessions[k].user_id = u /\ Date(sessions[k].started_at) = d)
        => sessions[k].ended_at # Null

\* C17 as stated: a day summary called twice in a row for one user and date,
\* with no new session and no other change in between, returns the same summary
\* both times and leaves the deductions after the second call as they were
\* after the first, with at most one OVERBREAK row.
C17_TwiceInARow ==
    [][\A u \in SummaryUsers, d \in SummaryDates :
          (JustSummarized(u, d) /\ build_summary_for_day(u, d))
          => SecondCallSame(u, d)]_vars

\* C17 amended: the same, provided every session of the user started on that
\* date is closed or both calls read the same clock; an open session counts up
\* to the current time, so a later second call can return more minutes and
\* update the OVERBREAK row, of which there is still one at most.
C17_TwiceInARowClosed ==
    [][\A u \in SummaryUsers, d \in SummaryDates :
          (JustSummarized(u, d) /\ build_summary_for_day(u, d))
          => /\ (NoOpenSession(u, d) \/ lastCall.at = now) => SecondCallSame(u, d)
             /\ Cardinality(ExistingOverbreak(deductions', u, d)) <= 1]_vars

\* a second summary in a row, minutes after the first, of a day whose sessions
\* are all closed returned the same positive overbreak and kept the row
C17_Witness ==
    /\ lastCall.op = "summary"
    /\ lastCall.result = "ok"
    /\ lastCall.prior # NoPrior
    /\ lastCall.prior.at < lastCall.at
    /\ lastCall.prior.summary = lastCall.summary
    /\ lastCall.summary.overbreak_minutes > 0
    /\ NoOpenSession(lastCall.user, lastCall.date)
    /\ \E k \in OverbreakRows(lastCall.user, lastCall.date) :
          deductions[k].minutes = lastCall.summary.overbreak_minutes

RowOf(table, id) == table[CHOOSE k \in DOMAIN table : table[k].id = id]

\* C18: after a day summary with reconciliation has returned, an OVERBREAK row
\* of the user and date exists exactly when the returned overbreak_minutes is
\* above 0, and then holds that number of minutes; a row that existed is
\* updated in place, and deleted when the overbreak is 0.
C18_RowMatchesOverbreak ==
    [][\A u \in SummaryUsers, d \in SummaryDates :
          (build_summary_for_day(u, d) /\ lastCall'.result = "ok")
          => LET before == ExistingOverbreak(deductions, u, d)
                 after == ExistingOverbreak(deductions', u, d)
                 overbreak == lastCall'.summary.overbreak_minutes
             IN  /\ after # {} <=> overbreak > 0
                 /\ \A id \in after : RowOf(deductions', id).minutes = overbreak
                 /\ (before # {} /\ overbreak > 0) => after = before
                 /\ Cardinality(after) <= 1]_vars

\* a day summary has found an OVERBREAK row for a day whose overbreak is now 0
\* and the row is gone
C18_Witness ==
    /\ lastCall.op = "summary"
    /\ lastCall.result = "ok"
    /\ lastCall.ids # {}
    /\ lastCall.summary.overbreak_minutes = 0
    /\ OverbreakRows(lastCall.user, lastCall.date) = {}

\* the deductions other than the OVERBREAK rows of the user and date
OtherDeductions(table, u, d) ==
    SelectSeq(table, LAMBDA row : ~(row.user_id = u /\ row.date = d /\ row.type = "OVERBREAK"))

\* C19: a day summary changes nothing but the OVERBREAK deduction of its user
\* and date: the ROLLCALL deductions, the deductions of other users and dates,
\* the work sessions and the roll-calls are after the call as before it.
C19_SummaryFrame ==
    [][\A u \in SummaryUsers :
          build_summary_for_day(u, FirstDay)
          => /\ OtherDeductions(deductions', u, FirstDay)
                  = OtherDeductions(deductions, u, FirstDay)
             /\ sessions' = sessions
             /\ rollCalls' = rollCalls
             /\ <<users, orgs, shiftTemplates, shiftAssignments, leaves>>'
                  = <<users, orgs, shiftTemplates, shiftAssignments, leaves>>]_vars

\* a day summary has written the OVERBREAK row of a user while the table held
\* a ROLLCALL deduction of that date
C19_Witness ==
    /\ lastCall.op = "summary"
    /\ lastCall.result = "ok"
    /\ \E k \in OverbreakRows(lastCall.user, lastCall.date) :
          /\ deductions[k].minutes = lastCall.summary.overbreak_minutes
          /\ \E j \in DOMAIN deductions :
                /\ deductions[j].type = "ROLLCALL"
                /\ deductions[j].date = lastCall.date
                /\ deductions[j].minutes > 0

----------------------------------------------------------------------------
(* Claims about the range summary *)

MinuteFields ==
    {"work_minutes", "lunch_minutes", "short_break_minutes", "overbreak_minutes",
     "rollcall_deduction_minutes"}

\* the sum of a field of the day summaries over a set of dates
RECURSIVE SumOverDates(_, _, _)
SumOverDates(u, dates, field) ==
    IF dates = {} THEN 0
    ELSE LET d == CHOOSE x \in dates : TRUE
         IN  DaySummary(deductions, u, d, now)[field]
             + SumOverDates(u, dates \ {d}, field)

DatesBetween(d, e) == {x \in SummaryDates : Min2(d, e) <= x /\ x <= Max2(d, e)}

\* C20: the range summary is read-only: for a start and an end date in either
\* order it creates, updates and deletes no deduction, also when a day has
\* positive overbreak or a stale OVERBREAK row, and each minute field it returns
\* is the sum of that field of the day summaries from the earlier to the later
\* date, both included.
C20_RangeReadOnly ==
    [][\A u \in SessionUsers, d, e \in SummaryDates :
          build_summary_for_range(u, d, e)
          => /\ deductions' = deductions
             /\ <<users, orgs, shiftTemplates, shiftAssignments, sessions, leaves,
                  rollCalls>>'
                  = <<users, orgs, shiftTemplates, shiftAssignments, sessions, leaves,
                      rollCalls>>
             /\ \A field \in MinuteFields :
                   lastCall'.summary[field] = SumOverDates(u, DatesBetween(d, e), field)]_vars

\* a range summary called with the later date first has summed two days with
\* minutes, one with positive overbreak whose stored OVERBREAK row is stale, and
\* the row is as it was
C20_Witness ==
    /\ lastCall.op = "range"
    /\ lastCall.start_date > lastCall.end_date
    /\ lastCall.summary.overbreak_minutes > 0
    /\ lastCall.summary.work_minutes
         > DaySummary(deductions, lastCall.user, lastCall.end_date, now).work_minutes
    /\ \E k \in OverbreakRows(lastCall.user, lastCall.end_date) :
          deductions[k].minutes
            # DaySummary(deductions, lastCall.user, lastCall.end_date, now).overbreak_minutes

----------------------------------------------------------------------------
(* The day summary on drawn sessions, windows and roll-call deductions *)

DayUsers == {2, 4}
DayStart == FirstDay * SecondsPerDay + TimeOfDay(6, 0)
DayInstants ==
    {FirstDay * SecondsPerDay + TimeOfDay(12, 0),
     FirstDay * SecondsPerDay + TimeOfDay(18, 0),
     FirstDay * SecondsPerDay + TimeOfDay(18, 30) + 30,
     (FirstDay + 1) * SecondsPerDay + TimeOfDay(0, 30)}
WorkLengths == {30, 450, 600}        \* minutes of the first WORK session
LunchLengths == {30, 70}             \* minutes of the LUNCH session
BreakLengths == {0, 40}              \* minutes of the SHORT_BREAK session, 0: none
LateMinutes == {<<3>>, <<3, 600>>}    \* minutes of the day's ROLLCALL deductions
DayShifts == {<<TimeOfDay(0, 0), TimeOfDay(0, 0)>>, <<TimeOfDay(7, 0), TimeOfDay(16, 0)>>}
\* who logs the sessions: a user on one of the shifts, a user with no shift,
\* a user with no shift who may log unassigned sessions
DayCases ==
    {[user |-> 2, assigned |-> TRUE, shift |-> shift] : shift \in DayShifts}
    \cup {[user |-> u, assigned |-> FALSE, shift |-> <<TimeOfDay(0, 0), TimeOfDay(0, 0)>>] :
             u \in DayUsers}

\* closed sessions of the given lengths one after the other from time t on,
\* then an open WORK session when trailing
RECURSIVE SessionChain(_, _, _, _, _, _)
SessionChain(table, u, t, kinds, lengths, trailing) ==
    IF kinds = <<>>
    THEN IF trailing
         THEN Append(table, [id |-> Len(table) + 1, org_id |-> InitUsers[u].org_id,
                             user_id |-> u, started_at |-> t, ended_at |-> Null,
                             session_type |-> "WORK"])
         ELSE table
    ELSE LET ended == t + Head(lengths) * SecondsPerMinute
             row == [id |-> Len(table) + 1, org_id |-> InitUsers[u].org_id,
                     user_id |-> u, started_at |-> t, ended_at |-> ended,
                     session_type |-> Head(kinds)]
         IN  SessionChain(IF Head(lengths) = 0 THEN table ELSE Append(table, row),
                          u, ended, Tail(kinds), Tail(lengths), trailing)

\* the roll-call that a response `minutes` late has left behind, and its
\* deduction
LateRollCall(id, u, triggered_at, minutes) ==
    [NewRollCall(InitUsers[u].org_id, u, triggered_at) EXCEPT
        !.id = id,
        !.responded_at = triggered_at + OnTimeSeconds + minutes * SecondsPerMinute,
        !.result = "LATE",
        !.response_delay_seconds = minutes * SecondsPerMinute]

LateRollCalls(u, late) ==
    [k \in DOMAIN late |->
        LateRollCall(k, u, DayStart + k * TimeOfDay(0, 10), late[k])]
    \o (IF late = <<>> THEN <<>>
        ELSE <<LateRollCall(Len(late) + 1, u, DayStart - DaysPerWeek * SecondsPerDay, 7)>>)

RECURSIVE LateDeductions(_, _, _)
LateDeductions(table, roll_calls, k) ==
    IF k > Len(roll_calls) THEN table
    ELSE LateDeductions(
             create_rollcall_deduction(table, roll_calls[k], roll_calls[k].user_id,
                                       roll_calls[k].response_delay_seconds),
             roll_calls, k + 1)

InitDay ==
    /\ users = InitUsers
    /\ orgs = [o \in OrgIds |->
                 [settings |-> [rollcalls_per_hour |-> IF o = 1 THEN 1 ELSE Null],
                  timezone |-> IF o = 1 THEN "UTC" ELSE NoZone]]
    /\ \E case \in DayCases, w \in WorkLengths, l \in LunchLengths, b \in BreakLengths,
          trailing \in BOOLEAN, late \in LateMinutes :
          /\ shiftTemplates = {[id |-> 1, org_id |-> 1, day_of_week |-> 0,
                                start_time |-> case.shift[1], end_time |-> case.shift[2],
                                timezone |-> "UTC"]}
          /\ shiftAssignments =
                IF case.assigned
                THEN {[id |-> 1, shift_id |-> 1, user_id |-> case.user,
                       effective_from |-> FirstDay, effective_to |-> Null]}
                ELSE {}
          /\ sessions = SessionChain(<<>>, case.user, DayStart,
                                     <<"WORK", "LUNCH", "SHORT_BREAK">>, <<w, l, b>>,
                                     trailing)
          /\ now = DayStart + (w + l + b) * SecondsPerMinute
          /\ rollCalls = LateRollCalls(case.user, late)
          /\ deductions = LateDeductions(<<>>, LateRollCalls(case.user, late), 1)
    /\ leaves = {}
    /\ lastCall = NoCall
    /\ tickTxn = [p \in 1 .. 2 |-> NoTxn]
    /\ respondTxn = NoTxn
    /\ expireTxn = NoTxn
    /\ summaryTxn = [p \in 1 .. 2 |-> NoTxn]

AdvanceDay ==
    /\ \E t \in DayInstants : t > now /\ now' = t
    /\ lastCall' = NoCall
    /\ UNCHANGED <<dbVars, txnVars>>

NextDay ==
    \/ AdvanceDay
    \/ \E u \in DayUsers : stop_work(u)
    \/ \E u \in DayUsers : build_summary_for_day(u, FirstDay)

SpecDay == InitDay /\ [][NextDay]_vars

\* the minutes of the rows of the table at the positions of S, added up
RECURSIVE RowMinutes(_, _)
RowMinutes(table, S) ==
    IF S = {} THEN 0
    ELSE LET k == CHOOSE j \in S : TRUE
         IN  table[k].minutes + RowMinutes(table, S \ {k})

RollcallRows(u, d) ==
    {k \in DOMAIN deductions : /\ deductions[k].user_id = u
                               /\ deductions[k].date = d
                               /\ deductions[k].type = "ROLLCALL"}

\* C21: every day summary has rollcall_deduction_minutes equal to the sum of
\* the ROLLCALL deductions of the user dated that day, and net hours, in
\* minutes, equal to max(0, min(480, work_minutes) - (overbreak_minutes +
\* rollcall_deduction_minutes)); work 450, lunch 70, short break 40 and one
\* 3-minute ROLLCALL deduction give overbreak 20 and net 427 minutes
C21_NetMinutes ==
    [][\A u \in DayUsers :
          (build_summary_for_day(u, FirstDay) /\ lastCall'.result = "ok")
          => LET s == lastCall'.summary
             IN  /\ s.rollcall_deduction_minutes
                      = RowMinutes(deductions, RollcallRows(u, FirstDay))
                 /\ s.net_minutes
                      = Max2(0, Min2(480, s.work_minutes)
                                  - (s.overbreak_minutes + s.rollcall_deduction_minutes))
                 /\ (/\ s.work_minutes = 450 /\ s.lunch_minutes = 70
                     /\ s.short_break_minutes = 40
                     /\ s.rollcall_deduction_minutes = 3)
                    => (s.overbreak_minutes = 20 /\ s.net_minutes = 427)]_vars

\* a summary of the example day: 450 minutes of work, 70 of lunch, 40 of short
\* break, one 3-minute ROLLCALL deduction that day and one of another day
C21_Witness ==
    /\ lastCall.op = "summary"
    /\ lastCall.result = "ok"
    /\ lastCall.summary.work_minutes = 450
    /\ lastCall.summary.lunch_minutes = 70
    /\ lastCall.summary.short_break_minutes = 40
    /\ lastCall.summary.rollcall_deduction_minutes = 3
    /\ lastCall.summary.net_minutes = 427
    /\ \E k \in DOMAIN deductions :
          /\ deductions[k].type = "ROLLCALL"
          /\ deductions[k].user_id = lastCall.user
          /\ deductions[k].date # lastCall.date

\* C22: every day summary has overbreak_minutes = max(0, lunch_minutes - 60)
\* + max(0, short_break_minutes - 30): lunch within its allowance leaves the
\* whole excess of the short breaks and the other way round, and
\* overbreak_minutes is never negative
C22_Overbreak ==
    [][\A u \in DayUsers :
          (build_summary_for_day(u, FirstDay) /\ lastCall'.result = "ok")
          => LET s == lastCall'.summary
                 over_lunch == IF s.lunch_minutes > 60 THEN s.lunch_minutes - 60 ELSE 0
                 over_short == IF s.short_break_minutes > 30
                               THEN s.short_break_minutes - 30 ELSE 0
             IN  /\ s.overbreak_minutes = over_lunch + over_short
                 /\ s.overbreak_minutes >= 0
                 /\ s.lunch_minutes <= 60 => s.overbreak_minutes = over_short
                 /\ s.short_break_minutes <= 30 => s.overbreak_minutes = over_lunch]_vars

\* a summary with 30 minutes of the lunch allowance unused and 10 minutes of
\* short break too many
C22_Witness ==
    /\ lastCall.op = "summary"
    /\ lastCall.result = "ok"
    /\ lastCall.summary.lunch_minutes = 30
    /\ lastCall.summary.short_break_minutes = 40
    /\ lastCall.summary.overbreak_minutes = 10

\* the values of the function f at the elements of S, added up
RECURSIVE SumFn(_, _)
SumFn(f, S) ==
    IF S = {} THEN 0
    ELSE LET k == CHOOSE j \in S : TRUE
         IN  f[k] + SumFn(f, S \ {k})

\* the whole minutes that [from, to) has in common with [start_utc, end_utc)
WholeMinutesInWindow(from, to, window) ==
    LET lo == IF from > window.start_utc THEN from ELSE window.start_utc
        hi == IF to < window.end_utc THEN to ELSE window.end_utc
    IN  IF hi > lo THEN (hi - lo) \div 60 ELSE 0

\* what the session at position k contributes at time t, summed per window
Contribution(k, windows, t) ==
    LET to == IF sessions[k].ended_at = Null THEN t ELSE sessions[k].ended_at
    IN  SumFn([j \in DOMAIN windows |->
                  WholeMinutesInWindow(sessions[k].started_at, to, windows[j])],
              DOMAIN windows)

ContributionOfType(u, d, session_type, windows, t) ==
    LET S == {k \in DOMAIN sessions : /\ sessions[k].user_id = u
                                      /\ Date(sessions[k].started_at) = d
                                      /\ sessions[k].session_type = session_type}
    IN  SumFn([k \in S |-> Contribution(k, windows, t)], S)

\* C23: in every day summary the minutes of each type are the whole minutes
\* that the sessions of that type, taken as [started_at, ended_at or now),
\* have in common with the day's shift windows, summed per window: a session
\* outside every window adds 0, and a day without any window has 0 minutes of
\* work, lunch and short break
C23_MinutesInWindows ==
    [][\A u \in DayUsers :
          (build_summary_for_day(u, FirstDay) /\ lastCall'.result = "ok")
          => LET s == lastCall'.summary
                 windows == get_shift_windows_for_day(u, FirstDay)
             IN  /\ s.work_minutes = ContributionOfType(u, FirstDay, "WORK", windows, now)
                 /\ s.lunch_minutes = ContributionOfType(u, FirstDay, "LUNCH", windows, now)
                 /\ s.short_break_minutes
                      = ContributionOfType(u, FirstDay, "SHORT_BREAK", windows, now)
                 /\ windows = <<>>
                    => /\ s.work_minutes = 0
                       /\ s.lunch_minutes = 0
                       /\ s.short_break_minutes = 0]_vars

\* a summary on the shift 07:00-16:00: of the WORK session 06:00-13:30 the 390
\* minutes from 07:00 on count
C23_Witness ==
    /\ lastCall.op = "summary"
    /\ lastCall.result = "ok"
    /\ lastCall.summary.work_minutes = 390
    /\ \E k \in DOMAIN sessions :
          /\ sessions[k].user_id = lastCall.user
          /\ sessions[k].session_type = "WORK"
          /\ sessions[k].started_at = DayStart
          /\ sessions[k].ended_at = DayStart + 450 * SecondsPerMinute

\* the user's sessions of the day are closed except for one WORK session
OneOpenWork(u, d) ==
    LET open == {k \in DOMAIN sessions : /\ sessions[k].user_id = u
                                         /\ Date(sessions[k].started_at) = d
                                         /\ sessions[k].ended_at = Null}
    IN  /\ Cardinality(open) = 1
        /\ \A k \in open : sessions[k].session_type = "WORK"

\* C24: with everything else as it is, a later end of a WORK session (inside
\* the shift window or beyond it) never gives a smaller work_minutes and never
\* a smaller net: the day summary with the open WORK session read up to the
\* later of two instants has at least the work and net minutes it has at the
\* earlier one
C24_LaterEndNeverLess ==
    \A u \in DayUsers :
       OneOpenWork(u, FirstDay)
       => \A t1, t2 \in DayInstants :
             t1 < t2
             => LET earlier == DaySummary(deductions, u, FirstDay, t1)
                    later == DaySummary(deductions, u, FirstDay, t2)
                IN  /\ earlier.work_minutes <= later.work_minutes
                    /\ earlier.net_minutes <= later.net_minutes
                    /\ earlier.lunch_minutes = later.lunch_minutes
                    /\ earlier.overbreak_minutes = later.overbreak_minutes

\* a summary taken while a WORK session is open inside the window: read at a
\* later instant the session gives more work and more net minutes, and read
\* at two instants past the end of the window it gives the same
C24_Witness ==
    /\ lastCall.op = "summary"
    /\ lastCall.result = "ok"
    /\ OneOpenWork(lastCall.user, FirstDay)
    /\ \E t2, t3 \in DayInstants :
          /\ now < t2
          /\ t2 < t3
          /\ DaySummary(deductions, lastCall.user, FirstDay, t2).work_minutes
               > lastCall.summary.work_minutes
          /\ DaySummary(deductions, lastCall.user, FirstDay, t2).net_minutes
               > lastCall.summary.net_minutes
          /\ DaySummary(deductions, lastCall.user, FirstDay, t3).work_minutes
               = DaySummary(deductions, lastCall.user, FirstDay, t2).work_minutes

----------------------------------------------------------------------------
(* Window resolution on drawn templates, assignments and time zones *)

WinUsers == {1, 4}
WinWeekdays == {0, 6}
WinTimes ==
    {<<TimeOfDay(9, 0), TimeOfDay(18, 0)>>,
     <<TimeOfDay(22, 0), TimeOfDay(2, 0)>>,
     <<TimeOfDay(0, 0), TimeOfDay(0, 0)>>,
     <<TimeOfDay(2, 30), TimeOfDay(3, 10)>>}
\* the time zone columns of the template and of its organization
ZoneCases ==
    {[template |-> "America/New_York", org |-> "UTC"],
     [template |-> "America/Chicago", org |-> "UTC"],
     [template |-> NoZone, org |-> "America/Chicago"],
     [template |-> NoZone, org |-> NoZone],
     [template |-> "Mars/Phobos", org |-> "UTC"],
     [template |-> NoZone, org |-> "Mars/Phobos"]}
\* effective_from and effective_to of the assignment
WinRanges == {<<FirstDay, Null>>, <<FirstDay, 14>>, <<FirstDay + 1, DstStartDay>>}
WinInstants ==
    {FirstDay * SecondsPerDay + TimeOfDay(14, 0),
     FirstDay * SecondsPerDay + TimeOfDay(23, 0),
     DstStartDay * SecondsPerDay + TimeOfDay(8, 20),
     14 * SecondsPerDay + TimeOfDay(14, 0),
     21 * SecondsPerDay + TimeOfDay(14, 0)}
WinDates == {FirstDay, FirstDay + 1, DstStartDay, 14, 21}
DaysAhead == {0, 2}

\* the drawn template, and a second Monday shift 03:00-06:00
WinTemplates(weekday, times, zone) ==
    {[id |-> 1, org_id |-> 1, day_of_week |-> weekday,
      start_time |-> times[1], end_time |-> times[2], timezone |-> zone],
     [id |-> 2, org_id |-> 1, day_of_week |-> 0,
      start_time |-> TimeOfDay(3, 0), end_time |-> TimeOfDay(6, 0),
      timezone |-> "UTC"]}

\* user 4, who may log unassigned sessions, is on the drawn template for the
\* drawn range and on the second one; user 1 is on the second one only
WinAssignments(range) ==
    {[id |-> 1, shift_id |-> 1, user_id |-> 4,
      effective_from |-> range[1], effective_to |-> range[2]],
     [id |-> 2, shift_id |-> 2, user_id |-> 4,
      effective_from |-> FirstDay, effective_to |-> Null],
     [id |-> 3, shift_id |-> 2, user_id |-> 1,
      effective_from |-> FirstDay, effective_to |-> Null]}

InitWindows ==
    /\ now = FirstDay * SecondsPerDay + TimeOfDay(14, 0)
    /\ users = InitUsers
    /\ \E weekday \in WinWeekdays, times \in WinTimes, zone \in ZoneCases,
          range \in WinRanges :
          /\ orgs = [o \in OrgIds |->
                       [settings |-> [rollcalls_per_hour |-> Null],
                        timezone |-> IF o = 1 THEN zone.org ELSE NoZone]]
          /\ shiftTemplates = WinTemplates(weekday, times, zone.template)
          /\ shiftAssignments = WinAssignments(range)
    /\ sessions = <<>>
    /\ leaves = {}
    /\ rollCalls = <<>>
    /\ deductions = <<>>
    /\ lastCall = NoCall
    /\ tickTxn = [p \in 1 .. 2 |-> NoTxn]
    /\ respondTxn = NoTxn
    /\ expireTxn = NoTxn
    /\ summaryTxn = [p \in 1 .. 2 |-> NoTxn]

AdvanceWindows ==
    /\ \E t \in WinInstants : t > now /\ now' = t
    /\ lastCall' = NoCall
    /\ UNCHANGED <<dbVars, txnVars>>

\* a call of get_active_shift_window(db, user_id) at the current time
ActiveWindowCall(user_id) ==
    /\ lastCall' =
          IF windows_for_assignments_raises(user_id)
          THEN [op |-> "active", at |-> now, user |-> user_id, result |-> "error"]
          ELSE [op |-> "active", at |-> now, user |-> user_id, result |-> "ok",
                window |-> get_active_shift_window(user_id, now)]
    /\ UNCHANGED <<now, dbVars, txnVars>>

\* a call of get_shift_windows_for_day(db, user_id, target_date)
WindowsForDayCall(user_id, target_date) ==
    /\ lastCall' =
          IF get_shift_windows_for_day_raises(user_id, target_date)
          THEN [op |-> "day", at |-> now, user |-> user_id, date |-> target_date,
                result |-> "error"]
          ELSE [op |-> "day", at |-> now, user |-> user_id, date |-> target_date,
                result |-> "ok",
                windows |-> get_shift_windows_for_day(user_id, target_date)]
    /\ UNCHANGED <<now, dbVars, txnVars>>

\* a call of describe_user_schedule(db, user_id, days_ahead); date.today() is
\* the date of the server clock
DescribeScheduleCall(user_id, days_ahead) ==
    /\ lastCall' =
          IF describe_user_schedule_raises(user_id, Date(now), days_ahead)
          THEN [op |-> "schedule", at |-> now, user |-> user_id,
                days_ahead |-> days_ahead, result |-> "error"]
          ELSE [op |-> "schedule", at |-> now, user |-> user_id,
                days_ahead |-> days_ahead, result |-> "ok",
                schedule |-> describe_user_schedule(user_id, Date(now), days_ahead)]
    /\ UNCHANGED <<now, dbVars, txnVars>>

NextWindows ==
    \/ AdvanceWindows
    \/ \E u \in WinUsers : ActiveWindowCall(u)
    \/ \E u \in WinUsers, d \in WinDates : WindowsForDayCall(u, d)
    \/ \E u \in WinUsers, days_ahead \in DaysAhead : DescribeScheduleCall(u, days_ahead)
    \/ \E u \in WinUsers : build_summary_for_day(u, Date(now))

SpecWindows == InitWindows /\ [][NextWindows]_vars

\* the real windows that the last call of get_active_shift_window or
\* get_shift_windows_for_day returned
ReturnedWindows ==
    IF lastCall.op = "active" /\ lastCall.result = "ok"
    THEN (IF lastCall.window = NoWindow THEN {} ELSE {lastCall.window})
    ELSE IF lastCall.op = "day" /\ lastCall.result = "ok"
         THEN {w \in Range(lastCall.windows) : w.assignment_id # 0}
         ELSE {}

AssignmentOf(window) == CHOOSE a \in shiftAssignments : a.id = window.assignment_id

\* the date the window was built for
CandidateOf(window) == Date(window.local_start)

\* date c inside [effective_from, effective_to), or inside
\* [effective_from, effective_to] when closed; a null end is no bound
InEffectiveRange(a, c, closed) ==
    /\ c >= a.effective_from
    /\ \/ a.effective_to = Null
       \/ c < a.effective_to
       \/ closed /\ c = a.effective_to

\* C25: a window is produced only for a candidate date inside the half-open
\* range [effective_from, effective_to) of its assignment: no returned window
\* is of a date before effective_from, equal to effective_to or after it
C25_HalfOpenRange ==
    \A w \in ReturnedWindows :
       InEffectiveRange(AssignmentOf(w), CandidateOf(w), FALSE)

\* the dates of the weeks around the instants and days that are queried
OccurrenceDates == 0 .. 27

\* the occurrences of the user's assignments: one window for each date that
\* has the day-of-week of the template and is inside the effective range
Occurrences(u, closed) ==
    {build_window(TemplateOf(a), a, TzValue(TemplateOf(a)), c) :
        <<a, c>> \in {x \in {y \in shiftAssignments : y.user_id = u} \X OccurrenceDates :
                        /\ Weekday(x[2]) = TemplateOf(x[1]).day_of_week
                        /\ InEffectiveRange(x[1], x[2], closed)}}

\* C26: get_active_shift_window returns a window if and only if some
\* occurrence of an assignment of the user, on a date with the day-of-week of
\* the template and inside the range [effective_from, effective_to), contains
\* the instant in [start_utc, end_utc); the window returned is such an
\* occurrence, so the three candidate dates miss none
C26_ActiveIffOccurrence ==
    (lastCall.op = "active" /\ lastCall.result = "ok")
    => LET hits == {w \in Occurrences(lastCall.user, FALSE) :
                       w.start_utc <= lastCall.at /\ lastCall.at < w.end_utc}
       IN  /\ (lastCall.window # NoWindow) <=> (hits # {})
           /\ lastCall.window # NoWindow => lastCall.window \in hits

TemplateOfWindow(window) == CHOOSE t \in shiftTemplates : t.id = window.shift_id

RealOfDay == SelectSeq(lastCall.windows, LAMBDA w : w.assignment_id # 0)

\* C28: get_shift_windows_for_day(user, date) returns each window of the
\* user's assignments, on a date inside [effective_from, effective_to), whose
\* [start_utc, end_utc) overlaps [date 00:00, date+1 00:00), once, and no other
\* real window, in ascending order of start_utc; a window that ends at the
\* day's start or starts at the day's end is not returned
C28_WindowsOfDay ==
    (lastCall.op = "day" /\ lastCall.result = "ok")
    => LET day_start == lastCall.date * SecondsPerDay
           day_end == day_start + SecondsPerDay
           overlapping == {w \in Occurrences(lastCall.user, FALSE) :
                              w.start_utc < day_end /\ w.end_utc > day_start}
       IN  /\ Range(RealOfDay) = overlapping
           /\ Len(RealOfDay) = Cardinality(overlapping)
           /\ \A i, j \in DOMAIN RealOfDay :
                 i < j => RealOfDay[i].start_utc <= RealOfDay[j].start_utc
           /\ \A w \in Range(RealOfDay) :
                 w.end_utc # day_start /\ w.start_utc # day_end

\* the windows that the resolution builds for the user's assignments and that
\* overlap the day (the last date of an assignment being the one of line 100)
RealWindowsOverlapping(u, d) ==
    {w \in Occurrences(u, TRUE) :
        w.start_utc < (d + 1) * SecondsPerDay /\ w.end_utc > d * SecondsPerDay}

\* the zone of the user: the user's own unless it is missing or the device
\* marker, else the organization's, else the default
ZoneOfUser(u) ==
    IF users[u].timezone \notin {NoZone, DEVICE_TIMEZONE} THEN users[u].timezone
    ELSE IF orgs[users[u].org_id].timezone # NoZone THEN orgs[users[u].org_id].timezone
    ELSE "UTC"

\* C29: get_shift_windows_for_day returns the all-day fallback window
\* (assignment_id 0, 24 hours from midnight in the user's zone) exactly when no
\* real window overlaps the day and the user has unassigned-session access;
\* the fallback is then the only window of the list; without the access and
\* without a real window the list is empty; and every entry of
\* describe_user_schedule is a real window, never a fallback
C29_Fallback ==
    /\ (lastCall.op = "day" /\ lastCall.result = "ok")
       => LET u == lastCall.user
              d == lastCall.date
              ws == lastCall.windows
              fallbacks == {k \in DOMAIN ws : ws[k].assignment_id = 0}
          IN  /\ (fallbacks # {})
                 <=> (/\ RealWindowsOverlapping(u, d) = {}
                      /\ users[u].allow_unassigned_sessions)
              /\ fallbacks # {}
                 => /\ Len(ws) = 1
                    /\ ws[1].shift_id = 0
                    /\ ws[1].user_id = u
                    /\ ws[1].timezone = ZoneOfUser(u)
                    /\ ws[1].local_start = d * SecondsPerDay
                    /\ ws[1].local_end = ws[1].local_start + 24 * 3600
                    /\ ws[1].start_utc = ToUtc(ZoneOfUser(u), ws[1].local_start)
                    /\ ws[1].end_utc = ToUtc(ZoneOfUser(u), ws[1].local_end)
              /\ (RealWindowsOverlapping(u, d) = {} /\ ~users[u].allow_unassigned_sessions)
                 => ws = <<>>
    /\ (lastCall.op = "schedule" /\ lastCall.result = "ok")
       => \A k \in DOMAIN lastCall.schedule :
             \E w \in Occurrences(lastCall.user, TRUE) :
                /\ lastCall.schedule[k].start_utc = w.start_utc
                /\ lastCall.schedule[k].end_utc = w.end_utc
                /\ lastCall.schedule[k].source_timezone = w.timezone

\* user 4, who has shifts on other days, asks for a day without any and gets
\* the fallback window alone, from midnight in New York
C29_Witness ==
    /\ lastCall.op = "day"
    /\ lastCall.result = "ok"
    /\ users[lastCall.user].allow_unassigned_sessions
    /\ Occurrences(lastCall.user, TRUE) # {}
    /\ Len(lastCall.windows) = 1
    /\ lastCall.windows[1].assignment_id = 0
    /\ lastCall.windows[1].start_utc = lastCall.date * SecondsPerDay + 5 * 3600

\* a time zone column that is NULL or holds a name the zone database lacks
Unusable(zone) == zone \notin ValidZones

\* C30: a time zone name that is missing or not a valid identifier never makes
\* window resolution fail: get_active_shift_window, get_shift_windows_for_day,
\* describe_user_schedule and the summarizer return, and the windows of a
\* template with no usable name on it or on its organization are in the
\* default zone
C30_ZoneFallback ==
    /\ lastCall.op \in {"active", "day", "schedule", "summary"}
       => lastCall.result = "ok"
    /\ \A w \in ReturnedWindows :
          (/\ Unusable(TemplateOfWindow(w).timezone)
           /\ Unusable(orgs[w.org_id].timezone))
          => w.timezone = "UTC"

----------------------------------------------------------------------------
(* The scheduler called with any target, and the owner's settings form *)

\* values a caller can pass as target_count
RawTargets ==
    {PyNone, PyInt(0 - 3), PyInt(0), PyInt(2), PyInt(13),
     PyStr(" 12 "), PyStr("abc"), PyList}
\* integers the settings form can carry
FormTargets == {0 - 3, 2, 13}
ScheduleOrgs == {1, 2}
FormOrgs == {1}

\* routers/admin.py update_rollcall_settings, called by the owner of the
\* organization
update_rollcall_settings(admin_org_id, rollcalls_per_hour) ==
    /\ orgs' = [orgs EXCEPT ![admin_org_id].settings.rollcalls_per_hour =
                                clamp_rollcall_target(PyInt(rollcalls_per_hour))]
    /\ lastCall' = [op |-> "settings", at |-> now, user |-> Null, id |-> Null,
                    result |-> "ok", ids |-> {}, org |-> admin_org_id,
                    value |-> PyInt(rollcalls_per_hour)]
    /\ UNCHANGED <<now, users, shiftTemplates, shiftAssignments, sessions, leaves,
                   rollCalls, deductions, txnVars>>

\* one call of schedule_roll_calls_for_current_hour; the answer is the list
\* of the rows it added, target_count the value line 46 assigns
ScheduleCall(org_id, target_count) ==
    /\ \E table \in schedule_roll_calls_for_current_hour(rollCalls, org_id, now,
                                                         target_count) :
          /\ rollCalls' = table
          /\ lastCall' = [op |-> "schedule", at |-> now, user |-> Null, id |-> Null,
                          result |-> "ok",
                          ids |-> (Len(rollCalls) + 1) .. Len(table),
                          org |-> org_id, value |-> target_count,
                          target_count |-> clamp_rollcall_target(target_count)]
    /\ UNCHANGED <<now, users, orgs, shiftTemplates, shiftAssignments, sessions,
                   leaves, deductions, txnVars>>

NextSchedule ==
    \/ AdvanceWithinHour
    \/ \E o \in ScheduleOrgs, v \in RawTargets : ScheduleCall(o, v)
    \/ \E o \in FormOrgs, n \in FormTargets : update_rollcall_settings(o, n)

\* the database of Init with user 3, the only user of organization 2, on
\* leave today
InitSchedule ==
    /\ now = FirstInstant
    /\ users = InitUsers
    /\ orgs = [o \in OrgIds |->
                 [settings |-> [rollcalls_per_hour |-> IF o = 1 THEN 1 ELSE Null],
                  timezone |-> IF o = 1 THEN "UTC" ELSE NoZone]]
    /\ shiftTemplates = InitTemplates
    /\ shiftAssignments = InitAssignments
    /\ sessions = InitSessions
    /\ leaves = {[org_id |-> 2, user_id |-> 3, date |-> FirstDay]}
    /\ rollCalls = <<>>
    /\ deductions = <<>>
    /\ lastCall = NoCall
    /\ tickTxn = [p \in 1 .. 2 |-> NoTxn]
    /\ respondTxn = NoTxn
    /\ expireTxn = NoTxn
    /\ summaryTxn = [p \in 1 .. 2 |-> NoTxn]

SpecSchedule == InitSchedule /\ [][NextSchedule]_vars

\* the integer a value stands for, if any
IsInteger(value) ==
    \/ value.py = "int"
    \/ value.py = "str" /\ value.s \in {"7", " 12 ", "-4", "013", "0"}
IntegerOf(value) ==
    IF value.py = "int" THEN value.n
    ELSE CASE value.s = "7" -> 7 [] value.s = " 12 " -> 12 [] value.s = "-4" -> 0 - 4
           [] value.s = "013" -> 13 [] value.s = "0" -> 0

\* the target the claim states for a value
StatedTarget(value) ==
    IF ~IsInteger(value) THEN 5
    ELSE IF IntegerOf(value) < 1 THEN 1
    ELSE IF IntegerOf(value) > 12 THEN 12
    ELSE IntegerOf(value)

\* C31: clamp_rollcall_target gives 5 for None and for a value that is no
\* integer, and otherwise the integer limited to 1..12: the settings form
\* stores that number, a scheduler call schedules for that number and so never
\* fills an hour beyond it, adds rows only to an hour below it, and with no
\* row in the hour, an eligible user and now not after the latest start it
\* adds a row even for a target of 0 or less.
C31_ClampedTarget ==
    [][/\ lastCall'.op = "settings" =>
            LET o == lastCall'.org
            IN  /\ orgs'[o].settings.rollcalls_per_hour = StatedTarget(lastCall'.value)
                /\ target_from_settings(orgs'[o].settings) = StatedTarget(lastCall'.value)
       /\ lastCall'.op = "schedule" =>
            LET o == lastCall'.org
                v == lastCall'.value
                before == Cardinality(BucketOf(o, HourOf(now)))
                after == Cardinality({i \in DOMAIN rollCalls' :
                             /\ rollCalls'[i].org_id = o
                             /\ HourOf(rollCalls'[i].triggered_at) = HourOf(now)})
            IN  /\ lastCall'.target_count = StatedTarget(v)
                /\ after <= Max2(before, StatedTarget(v))
                /\ lastCall'.ids # {} => before < StatedTarget(v)
                /\ (/\ before = 0
                    /\ get_active_users(o, now) # {}
                    /\ now <= latest_allowed_start(now))
                   => lastCall'.ids # {}]_vars

\* a call with target 0 added a roll-call
C31_Witness ==
    /\ lastCall.op = "schedule"
    /\ lastCall.ids # {}
    /\ lastCall.value = PyInt(0)

\* what a scheduler call for organization o finds: the rows of the hour, the
\* eligible users, and the earliest instant a further roll-call may take
FoundInHour(o) == BucketOf(o, HourOf(now))
UncoveredUsers(o) ==
    {u \in get_active_users(o, now) :
        \A i \in FoundInHour(o) : rollCalls[i].user_id # u}
EarliestNext(o) ==
    IF FoundInHour(o) = {} THEN now
    ELSE Max2(LatestTrigger(FoundInHour(o)), now) + MinGapSeconds

\* C32: a scheduler call that finds the hour at its target, or no eligible
\* user (none at all, or none without a roll-call in the hour), or no instant
\* left for a roll-call at or before end_of_hour minus 5 minutes, answers
\* with an empty list and leaves the roll_calls table as it was.
C32_NothingToSchedule ==
    [][lastCall'.op = "schedule" =>
        LET o == lastCall'.org
        IN  (\/ Cardinality(FoundInHour(o)) >= lastCall'.target_count
             \/ get_active_users(o, now) = {}
             \/ UncoveredUsers(o) = {}
             \/ EarliestNext(o) > end_of_hour(now) - 5 * SecondsPerMinute)
            => /\ lastCall'.result = "ok"
               /\ lastCall'.ids = {}
               /\ rollCalls' = rollCalls]_vars

\* each of the three cases came up with roll-calls in the table: the hour at
\* its target
C32_Witness ==
    /\ lastCall.op = "schedule"
    /\ lastCall.ids = {}
    /\ rollCalls # <<>>
    /\ Cardinality(FoundInHour(lastCall.org)) >= lastCall.target_count
    /\ get_active_users(lastCall.org, now) # {}

\* no eligible user
C32_WitnessNoUser ==
    /\ lastCall.op = "schedule"
    /\ lastCall.ids = {}
    /\ rollCalls # <<>>
    /\ get_active_users(lastCall.org, now) = {}

\* no room before the latest start
C32_WitnessNoRoom ==
    /\ lastCall.op = "schedule"
    /\ lastCall.ids = {}
    /\ rollCalls # <<>>
    /\ Cardinality(FoundInHour(lastCall.org)) < lastCall.target_count
    /\ UncoveredUsers(lastCall.org) # {}
    /\ EarliestNext(lastCall.org) > latest_allowed_start(now)

----------------------------------------------------------------------------
(* The session requests of one user, one after another *)

SessionActors == {6}

\* a new user without sessions, or user 6 at lunch after a morning of work
InitSessionRows ==
    {<<>>,
     <<[InitSession(1, 6, "WORK", FirstInstant - TimeOfDay(0, 30)) EXCEPT !.id = 1],
       [InitSession(2, 6, "LUNCH", Null) EXCEPT
            !.started_at = FirstInstant - TimeOfDay(0, 30)]>>}

InitSessionLog ==
    /\ now = FirstInstant
    /\ users = InitUsers
    /\ orgs = [o \in OrgIds |->
                 [settings |-> [rollcalls_per_hour |-> IF o = 1 THEN 1 ELSE Null],
                  timezone |-> IF o = 1 THEN "UTC" ELSE NoZone]]
    /\ shiftTemplates = InitTemplates
    /\ shiftAssignments = InitAssignments
    /\ sessions \in InitSessionRows
    /\ leaves = {}
    /\ rollCalls = <<>>
    /\ deductions = <<>>
    /\ lastCall = NoCall
    /\ tickTxn = [p \in 1 .. 2 |-> NoTxn]
    /\ respondTxn = NoTxn
    /\ expireTxn = NoTxn
    /\ summaryTxn = [p \in 1 .. 2 |-> NoTxn]

\* the clock of the session log: the first instants of the hour
SessionLogOffsets == {0, 900}
AdvanceSessionLog ==
    /\ now' \in {FirstInstant + off : off \in SessionLogOffsets}
    /\ Advance

NextSessionLog ==
    \/ AdvanceSessionLog
    \/ \E u \in SessionActors :
          \/ start_work(u)
          \/ stop_work(u)
          \/ start_lunch(u)
          \/ end_lunch(u)
          \/ start_break(u)
          \/ end_break(u)

SpecSessionLog == InitSessionLog /\ [][NextSessionLog]_vars

\* the dashboard's single-row lookup of the open session (dashboard.py 73-77)
\* raises on two rows
DashboardLookupFails(u) == Cardinality(OpenSessions(u, SessionTypes)) > 1

\* C33: after any sequence of start, stop, start-lunch, end-lunch,
\* start-break and end-break requests of a user, handled one at a time, the
\* user has at most one open session of each kind and at most one open session
\* in all; no single-row lookup of a handler or of the dashboard finds two.
C33_OneOpenSession ==
    /\ \A u \in UserIds :
          /\ \A kind \in SessionTypes : Cardinality(OpenSessions(u, {kind})) <= 1
          /\ Cardinality(OpenSessions(u, SessionTypes)) <= 1
          /\ ~DashboardLookupFails(u)
    /\ lastCall.result # "error"

\* a break is open after work, a lunch and more work
C33_Witness ==
    \E u \in SessionActors :
        /\ OpenSessions(u, {"SHORT_BREAK"}) # {}
        /\ \E k \in DOMAIN sessions :
              /\ sessions[k].user_id = u
              /\ sessions[k].session_type = "LUNCH"
              /\ sessions[k].ended_at # Null
        /\ Cardinality({k \in DOMAIN sessions :
                          sessions[k].user_id = u /\ sessions[k].session_type = "WORK"}) >= 2

----------------------------------------------------------------------------
(* routers/admin.py: create_shift, assign_existing_shift, delete_shift *)

SHIFT_TOTAL_WINDOW_MINUTES == 540
MaxShifts == 2         \* ids of shift_templates
MaxAssignments == 3    \* ids of shift_assignments

\* the next value of a table's id sequence; ids of deleted rows are read by
\* nothing, so the model continues after the largest id in the table
NextSetId(rows) ==
    IF rows = {} THEN 1
    ELSE (CHOOSE m \in {r.id : r \in rows} : \A r \in rows : r.id <= m) + 1

shift_duration_minutes(start_time, end_time) ==
    (IF end_time <= start_time THEN end_time + SecondsPerDay - start_time
     ELSE end_time - start_time) \div SecondsPerMinute

\* lines 363-370 and 449-455: the positive ids of the form
ParsedIds(user_ids) == {v \in user_ids : v > 0}

ValidUsers(org_id, ids) == {u \in UserIds : users[u].org_id = org_id /\ u \in ids}

\* lines 385-396 and 486-498: a selected user with an open-ended assignment
\* to a template of the day other than shift_id
DayConflict(org_id, ids, day_of_week, shift_id) ==
    \E a \in shiftAssignments :
        /\ a.user_id \in ids
        /\ a.user_id \in UserIds
        /\ users[a.user_id].org_id = org_id
        /\ \E t \in shiftTemplates : t.id = a.shift_id /\ t.day_of_week = day_of_week
        /\ a.effective_to = Null
        /\ a.shift_id # shift_id

\* lines 473-482: a selected user with an open-ended assignment to the shift
AlreadyAssigned(shift_id, ids) ==
    \E a \in shiftAssignments :
        a.shift_id = shift_id /\ a.user_id \in ids /\ a.effective_to = Null

\* db.add_all of one assignment per id, in ascending order of the ids
RECURSIVE NewAssignments(_, _, _, _)
NewAssignments(rows, shift_id, ids, today) ==
    IF ids = {} THEN rows
    ELSE LET uid == CHOOSE u \in ids : \A v \in ids : u <= v
         IN  NewAssignments(rows \cup {[id |-> NextSetId(rows), shift_id |-> shift_id,
                                        user_id |-> uid, effective_from |-> today,
                                        effective_to |-> Null]},
                            shift_id, ids \ {uid}, today)

\* uq_shift_assignment_start: one row per (shift_id, user_id, effective_from)
UniqueAssignments(rows) ==
    \A a, b \in rows :
        (a.shift_id = b.shift_id /\ a.user_id = b.user_id
            /\ a.effective_from = b.effective_from) => a.id = b.id

AdminCall(op, result, shift_id, ids) ==
    [NoCall EXCEPT !.op = op, !.at = now, !.result = result, !.id = shift_id, !.ids = ids]

ShiftFrame ==
    UNCHANGED <<now, users, orgs, sessions, leaves, rollCalls, deductions, txnVars>>

\* create_shift by an admin; the times are the parsed "%H:%M" fields
create_shift(admin_id, user_ids, day_of_week, start_time, end_time) ==
    LET org_id == users[admin_id].org_id
        unique_user_ids == ParsedIds(user_ids)
        user_defined_timezone ==
            IF users[admin_id].timezone \notin {NoZone, DEVICE_TIMEZONE}
            THEN users[admin_id].timezone ELSE NoZone
        tz_value == IF user_defined_timezone # NoZone THEN user_defined_timezone
                    ELSE IF orgs[org_id].timezone # NoZone THEN orgs[org_id].timezone
                    ELSE default_timezone
        shift == [id |-> NextSetId(shiftTemplates), org_id |-> org_id,
                  day_of_week |-> day_of_week, start_time |-> start_time,
                  end_time |-> end_time, timezone |-> tz_value]
        today == Date(ToLocal(tz_value, now))
        rejected ==
            IF shift_duration_minutes(start_time, end_time) # SHIFT_TOTAL_WINDOW_MINUTES
                THEN "bad_duration"
            ELSE IF day_of_week < 0 \/ day_of_week > 6 THEN "bad_day"
            ELSE IF unique_user_ids = {} THEN "no_user"
            ELSE IF ValidUsers(org_id, unique_user_ids) # unique_user_ids THEN "invalid_user"
            ELSE IF DayConflict(org_id, unique_user_ids, day_of_week, Null) THEN "conflict"
            ELSE IF tz_value \notin ValidZones THEN "error"
            ELSE "no"
    IN  /\ NextSetId(shiftTemplates) <= MaxShifts
        /\ NextSetId(shiftAssignments) + Cardinality(unique_user_ids) <= MaxAssignments + 1
        /\ IF rejected = "no"
           THEN /\ shiftTemplates' = shiftTemplates \cup {shift}
                /\ shiftAssignments' =
                       NewAssignments(shiftAssignments, shift.id, unique_user_ids, today)
                /\ lastCall' = AdminCall("create_shift", "created", shift.id, unique_user_ids)
           ELSE /\ UNCHANGED <<shiftTemplates, shiftAssignments>>
                /\ lastCall' = AdminCall("create_shift", rejected, Null, unique_user_ids)
        /\ ShiftFrame

\* mutant: the shift is assigned without looking for a user already on it
assign_existing_shift_NoAssignedCheck(admin_id, shift_id, user_ids) ==
    LET org_id == users[admin_id].org_id
        shifts == {t \in shiftTemplates : t.id = shift_id /\ t.org_id = org_id}
        parsed_ids == ParsedIds(user_ids)
        day == (CHOOSE t \in shifts : TRUE).day_of_week
        added == NewAssignments(shiftAssignments, shift_id, parsed_ids, Date(now))
        rejected ==
            IF shifts = {} THEN "not_found"
            ELSE IF parsed_ids = {} THEN "no_user"
            ELSE IF ValidUsers(org_id, parsed_ids) # parsed_ids THEN "invalid_user"
            ELSE IF DayConflict(org_id, parsed_ids, day, shift_id) THEN "conflict"
            ELSE IF ~UniqueAssignments(added) THEN "error"
            ELSE "no"
    IN  /\ NextSetId(shiftAssignments) + Cardinality(parsed_ids) <= MaxAssignments + 1
        /\ IF rejected = "no"
           THEN /\ shiftAssignments' = added
                /\ lastCall' = AdminCall("assign", "assigned", shift_id, parsed_ids)
           ELSE /\ UNCHANGED shiftAssignments
                /\ lastCall' = AdminCall("assign", rejected, shift_id, parsed_ids)
        /\ UNCHANGED shiftTemplates
        /\ ShiftFrame

\* assign_existing_shift; date.today() is the date of the server's clock. An
\* insert that breaks uq_shift_assignment_start raises and commits nothing
assign_existing_shift(admin_id, shift_id, user_ids) ==
    LET org_id == users[admin_id].org_id
        shifts == {t \in shiftTemplates : t.id = shift_id /\ t.org_id = org_id}
        parsed_ids == ParsedIds(user_ids)
        day == (CHOOSE t \in shifts : TRUE).day_of_week
        added == NewAssignments(shiftAssignments, shift_id, parsed_ids, Date(now))
        rejected ==
            IF shifts = {} THEN "not_found"
            ELSE IF parsed_ids = {} THEN "no_user"
            ELSE IF ValidUsers(org_id, parsed_ids) # parsed_ids THEN "invalid_user"
            ELSE IF AlreadyAssigned(shift_id, parsed_ids) THEN "already_assigned"
            ELSE IF DayConflict(org_id, parsed_ids, day, shift_id) THEN "conflict"
            ELSE IF ~UniqueAssignments(added) THEN "error"
            ELSE "no"
    IN  /\ NextSetId(shiftAssignments) + Cardinality(parsed_ids) <= MaxAssignments + 1
        /\ IF rejected = "no"
           THEN /\ shiftAssignments' = added
                /\ lastCall' = AdminCall("assign", "assigned", shift_id, parsed_ids)
           ELSE /\ UNCHANGED shiftAssignments
                /\ lastCall' = AdminCall("assign", rejected, shift_id, parsed_ids)
        /\ UNCHANGED shiftTemplates
        /\ ShiftFrame

\* delete_shift: the template of the admin's organization and, by the
\* cascade of ShiftTemplate.assignments, its assignments
delete_shift(admin_id, shift_id) ==
    LET gone == {t \in shiftTemplates :
                    t.id = shift_id /\ t.org_id = users[admin_id].org_id}
    IN  /\ shiftTemplates' = shiftTemplates \ gone
        /\ shiftAssignments' =
               {a \in shiftAssignments : a.shift_id \notin {t.id : t \in gone}}
        /\ lastCall' = AdminCall("delete_shift", "ok", shift_id, {})
        /\ ShiftFrame

----------------------------------------------------------------------------
(* The shift administration of organization 1, one request at a time *)

ShiftAdmins == {1}
ShiftUserSets == {{2}, {2, 4}, {0, 3}}
ShiftDays == {0, 1, 7}
ShiftTimes ==
    {<<TimeOfDay(22, 0), TimeOfDay(7, 0)>>, <<TimeOfDay(0, 0), TimeOfDay(9, 0)>>,
     <<TimeOfDay(9, 0), TimeOfDay(17, 0)>>}
ShiftIds == 1 .. (MaxShifts + 1)
AssignmentIds == 1 .. MaxAssignments
\* Monday 23:00 and Tuesday 00:00
ShiftInstants == {FirstInstant, FirstInstant + SecondsPerHour}

\* an organization without shifts
InitShifts ==
    /\ now = FirstInstant
    /\ users = InitUsers
    /\ orgs = [o \in OrgIds |->
                 [settings |-> [rollcalls_per_hour |-> IF o = 1 THEN 1 ELSE Null],
                  timezone |-> IF o = 1 THEN "UTC" ELSE NoZone]]
    /\ shiftTemplates = {}
    /\ shiftAssignments = {}
    /\ sessions = <<>>
    /\ leaves = {}
    /\ rollCalls = <<>>
    /\ deductions = <<>>
    /\ lastCall = NoCall
    /\ tickTxn = [p \in 1 .. 2 |-> NoTxn]
    /\ respondTxn = NoTxn
    /\ expireTxn = NoTxn
    /\ summaryTxn = [p \in 1 .. 2 |-> NoTxn]

AdvanceShifts ==
    /\ \E t \in ShiftInstants : t > now /\ now' = t
    /\ lastCall' = NoCall
    /\ UNCHANGED <<dbVars, txnVars>>

NextShifts ==
    \/ AdvanceShifts
    \/ \E a \in ShiftAdmins, ids \in ShiftUserSets, d \in ShiftDays, times \in ShiftTimes :
          create_shift(a, ids, d, times[1], times[2])
    \/ \E a \in ShiftAdmins, s \in ShiftIds, ids \in ShiftUserSets :
          assign_existing_shift(a, s, ids)
    \/ \E a \in ShiftAdmins, s \in ShiftIds : delete_shift(a, s)
    \/ \E a \in ShiftAdmins, i \in AssignmentIds :
          delete_shift_assignment(users[a].org_id, i)

SpecShifts == InitShifts /\ [][NextShifts]_vars

OpenEnded(rows, shift_id, user_id) ==
    {a \in rows : a.shift_id = shift_id /\ a.user_id = user_id /\ a.effective_to = Null}

\* C34: after any sequence of create_shift, assign_existing_shift,
\* delete_shift and delete_shift_assignment requests, handled one at a time,
\* every (template, user) pair has at most one assignment with a null
\* effective_to; assign_existing_shift rejects the request and inserts
\* nothing when a selected user already has such an assignment to the template.
C34_OneOpenAssignment ==
    [][/\ \A a \in shiftAssignments' :
            Cardinality(OpenEnded(shiftAssignments', a.shift_id, a.user_id)) <= 1
       /\ (/\ lastCall'.op = "assign"
           /\ lastCall'.result \notin {"not_found", "no_user", "invalid_user"}
           /\ \E u \in lastCall'.ids : OpenEnded(shiftAssignments, lastCall'.id, u) # {})
          => /\ lastCall'.result = "already_assigned"
             /\ shiftAssignments' = shiftAssignments]_vars

\* a request for two users, one of them already on the shift since the day
\* before, was rejected
C34_Witness ==
    /\ lastCall.op = "assign"
    /\ lastCall.result = "already_assigned"
    /\ \E u, v \in lastCall.ids :
          /\ OpenEnded(shiftAssignments, lastCall.id, u) = {}
          /\ \E a \in OpenEnded(shiftAssignments, lastCall.id, v) :
                a.effective_from < Date(now)

----------------------------------------------------------------------------
(* schedule_roll_calls_for_current_hour, one loop iteration at a time *)

LoopOrgs == {1}
LoopTargets == {PyInt(2), PyNone}

\* mutant: a covered user stays in the pool
PoolWithout_Keep(active_users, user) == active_users

\* line 97: active_users.remove(user)
PoolWithout(active_users, user) == active_users \ {user}

\* lines 46-77: the call reads the hour and either returns at once or enters
\* the loop
LoopBegin(org_id, target_count) ==
    /\ tickTxn[1].pc = "idle"
    /\ LET read == ReadForSchedule(rollCalls, org_id, now)
           target == clamp_rollcall_target(target_count)
           last_triggered_at ==
               IF Len(read.existing) > 0
               THEN read.existing[Len(read.existing)].triggered_at ELSE Null
           returns == Len(read.existing) >= target \/ read.active_users = {}
       IN  tickTxn' = [tickTxn EXCEPT ![1] =
               [pc |-> IF returns THEN "return" ELSE "loop",
                call |-> [org_id |-> org_id, existing |-> read.existing,
                          target_count |-> target,
                          latest |-> latest_allowed_start(now)],
                scheduled |-> <<>>,
                anchor |-> Anchor(last_triggered_at, now),
                first_new_roll_call |-> last_triggered_at = Null,
                active_users |-> read.active_users,
                pool_size |-> Cardinality(read.active_users),
                iterations |-> 0]]
    /\ lastCall' = NoCall
    /\ UNCHANGED <<now, dbVars, respondTxn, expireTxn, summaryTxn>>

\* line 79 and one pass of lines 80-110
LoopIteration ==
    LET txn == tickTxn[1]
        call == txn.call
        min_gap == MIN_GAP_MINUTES * SecondsPerMinute
        max_gap == MAX_GAP_MINUTES * SecondsPerMinute
        remaining_window == call.latest - txn.anchor
        times == IF txn.first_new_roll_call THEN {FirstTargetTime(txn.anchor)}
                 ELSE IF remaining_window <= min_gap THEN {}
                 ELSE {txn.anchor + g :
                         g \in randint(min_gap, MaxGapAllowed(max_gap, remaining_window))}
        passed == [txn EXCEPT !.iterations = @ + 1, !.first_new_roll_call = FALSE]
        break == [passed EXCEPT !.pc = "commit"]
    IN  /\ txn.pc = "loop"
        /\ IF ~LoopContinues(Len(call.existing), Len(txn.scheduled), call.target_count,
                             txn.active_users)
           THEN tickTxn' = [tickTxn EXCEPT ![1] = [txn EXCEPT !.pc = "commit"]]
           ELSE IF times = {}
           THEN tickTxn' = [tickTxn EXCEPT ![1] = break]
           ELSE \E target_time \in times :
                  IF target_time > call.latest
                  THEN tickTxn' = [tickTxn EXCEPT ![1] = break]
                  ELSE \E user \in txn.active_users :
                         IF already_has_rollcall(call.existing \o txn.scheduled, user)
                         THEN tickTxn' = [tickTxn EXCEPT ![1] =
                                  [passed EXCEPT !.active_users =
                                                     PoolWithout(txn.active_users, user)]]
                         ELSE tickTxn' = [tickTxn EXCEPT ![1] =
                                  [passed EXCEPT
                                      !.scheduled =
                                          Append(@, NewRollCall(call.org_id, user, target_time)),
                                      !.anchor = target_time]]
        /\ UNCHANGED <<now, dbVars, lastCall, respondTxn, expireTxn, summaryTxn>>

\* lines 112-113, and the returns of lines 64 and 68
LoopReturn ==
    LET txn == tickTxn[1]
        table == InsertAll(rollCalls, txn.scheduled)
    IN  /\ txn.pc \in {"commit", "return"}
        /\ rollCalls' = table
        /\ lastCall' = [NoCall EXCEPT !.op = "schedule", !.at = now,
                           !.ids = (Len(rollCalls) + 1) .. Len(table)]
        /\ tickTxn' = [tickTxn EXCEPT ![1] = NoTxn]
        /\ UNCHANGED <<now, users, orgs, shiftTemplates, shiftAssignments, sessions,
                       leaves, deductions, respondTxn, expireTxn, summaryTxn>>

\* time passes between calls
AdvanceBetweenCalls == tickTxn[1].pc = "idle" /\ AdvanceWithinHour

NextLoop ==
    \/ AdvanceBetweenCalls
    \/ \E o \in LoopOrgs, v \in LoopTargets : LoopBegin(o, v)
    \/ LoopIteration
    \/ LoopReturn

SpecLoop == InitSchedule /\ [][NextLoop]_vars

\* a call that has started keeps executing
FairSpecLoop == SpecLoop /\ WF_vars(LoopIteration) /\ WF_vars(LoopReturn)

InLoop == tickTxn[1].pc = "loop"
CallRunning == tickTxn[1].pc # "idle"

\* C35: every call of the scheduler returns. Each pass of the loop body stops
\* the loop, removes one user from the pool or adds one roll-call, and a call
\* makes at most (size of the pool + target) passes.
C35_Terminates ==
    /\ [](CallRunning => tickTxn[1].iterations
                             <= tickTxn[1].pool_size + tickTxn[1].call.target_count)
    /\ [][(InLoop /\ tickTxn[1]' # tickTxn[1] /\ tickTxn'[1].pc # "idle") =>
            LET old == tickTxn[1]
                new == tickTxn'[1]
            IN  \/ new.pc = "commit"
                \/ /\ new.iterations = old.iterations + 1
                   /\ Cardinality(new.active_users) = Cardinality(old.active_users) - 1
                   /\ new.scheduled = old.scheduled
                \/ /\ new.iterations = old.iterations + 1
                   /\ Len(new.scheduled) = Len(old.scheduled) + 1
                   /\ new.active_users = old.active_users]_vars
    /\ (CallRunning ~> ~CallRunning)

\* a call is about to return after passes that added a roll-call and removed
\* every user from the pool
C35_Witness ==
    /\ tickTxn[1].pc = "commit"
    /\ tickTxn[1].active_users = {}
    /\ tickTxn[1].scheduled # <<>>
    /\ tickTxn[1].iterations > tickTxn[1].pool_size

----------------------------------------------------------------------------
(* Sweeps that keep coming while the clock runs on *)

SweepRollCallIds == 1 .. (2 * MaxHours)

\* ticks of the first hour: the clock runs on after the last of them
TickInFirstHour == HourOf(now) = HourOf(FirstInstant) /\ rollcall_tick

NextSweep ==
    \/ Advance
    \/ TickInFirstHour
    \/ \E u \in Responders, id \in 1 .. (Len(rollCalls) + 1) : respond_roll_call(u, id)
    \/ expire_roll_calls

SpecSweep == InitOneAnHour /\ [][NextSweep]_vars

\* the clock keeps running and POST /rollcall/expire keeps being called
FairSpecSweep == SpecSweep /\ WF_vars(Advance) /\ WF_vars(expire_roll_calls)

PendingRow(i) == i \in DOMAIN rollCalls /\ rollCalls[i].result = "PENDING"
ResolvedRow(i) ==
    i \in DOMAIN rollCalls /\ rollCalls[i].result \in {"PASSED", "LATE", "MISSED"}

\* C36: while sweeps keep running with an increasing now, every PENDING
\* roll-call eventually is PASSED, LATE or MISSED; a sweep whose now equals
\* the deadline of a PENDING roll-call leaves it PENDING, and a later sweep
\* (or a response) resolves it.
C36_EventuallyResolved ==
    /\ \A i \in SweepRollCallIds : PendingRow(i) ~> ResolvedRow(i)
    /\ [][lastCall'.op = "expire" =>
            \A i \in DOMAIN rollCalls :
                (PendingRow(i) /\ rollCalls[i].deadline_at = now)
                    => rollCalls'[i] = rollCalls[i]]_vars

\* a sweep ran at the deadline of a roll-call and left it PENDING
C36_Witness ==
    /\ lastCall.op = "expire"
    /\ \E i \in DOMAIN rollCalls : PendingRow(i) /\ rollCalls[i].deadline_at = now

\* the roll-call a sweep at its deadline had left was expired by a later sweep
C36_WitnessLater ==
    /\ lastCall.op = "expire"
    /\ \E i \in lastCall.ids :
          rollCalls[i].result = "MISSED" /\ rollCalls[i].deadline_at = end_of_hour(FirstInstant)

----------------------------------------------------------------------------
(* Roll-calls of one user across the hours (checked under Spec) *)

\* the roll-call is active at instant t
ActiveAt(i, t) == rollCalls[i].triggered_at <= t /\ t < rollCalls[i].deadline_at

\* the instants at which some roll-call starts to be active; two intervals
\* that share an instant share the later of their two starts
TriggerInstants == {rollCalls[i].triggered_at : i \in DOMAIN rollCalls}

\* C37: with ticks handled one at a time, at every instant every user has at
\* most one active roll-call (triggered_at <= t < deadline_at): a user has at
\* most one roll-call per hour bucket, and a roll-call's deadline is at or
\* before the start of the next bucket.
C37_OneActivePerUser ==
    /\ \A t \in TriggerInstants, u \in UserIds :
          Cardinality({i \in DOMAIN rollCalls :
                          rollCalls[i].user_id = u /\ ActiveAt(i, t)}) <= 1
    /\ \A i, j \in DOMAIN rollCalls :
          (/\ rollCalls[i].user_id = rollCalls[j].user_id
           /\ HourOf(rollCalls[i].triggered_at) = HourOf(rollCalls[j].triggered_at))
             => i = j
    /\ \A i \in DOMAIN rollCalls :
          rollCalls[i].deadline_at <= end_of_hour(rollCalls[i].triggered_at)

\* a user's roll-call of the next hour starts at the deadline of their
\* roll-call of this hour
C37_Witness ==
    \E i, j \in DOMAIN rollCalls :
        /\ rollCalls[i].user_id = rollCalls[j].user_id
        /\ rollCalls[i].deadline_at = rollCalls[j].triggered_at

----------------------------------------------------------------------------
(* Deductions and the roll-calls they belong to (checked under SpecResponses) *)

RollcallDeductionsOf(i) ==
    {k \in DOMAIN deductions :
        deductions[k].type = "ROLLCALL" /\ deductions[k].related_roll_call_id = i}

\* C38: with the operations handled one at a time, every ROLLCALL deduction
\* is linked to a roll-call whose result is LATE, every LATE roll-call has
\* exactly one ROLLCALL deduction, of ceil(response_delay_seconds / 60)
\* minutes and at least one minute, and a PENDING, PASSED or MISSED roll-call
\* has none.
C38_DeductionPerLate ==
    /\ \A k \in DOMAIN deductions :
          deductions[k].type = "ROLLCALL" =>
              /\ deductions[k].related_roll_call_id \in DOMAIN rollCalls
              /\ rollCalls[deductions[k].related_roll_call_id].result = "LATE"
    /\ \A i \in DOMAIN rollCalls :
          IF rollCalls[i].result = "LATE"
          THEN /\ Cardinality(RollcallDeductionsOf(i)) = 1
               /\ \A k \in RollcallDeductionsOf(i) :
                     /\ deductions[k].minutes >= 1
                     /\ deductions[k].minutes * 60 >= rollCalls[i].response_delay_seconds
                     /\ (deductions[k].minutes - 1) * 60 < rollCalls[i].response_delay_seconds
          ELSE RollcallDeductionsOf(i) = {}

\* the table holds a LATE roll-call with its deduction of several minutes
\* next to a PASSED and a MISSED one
C38_Witness ==
    /\ \E i \in DOMAIN rollCalls :
          /\ rollCalls[i].result = "LATE"
          /\ \E k \in RollcallDeductionsOf(i) : deductions[k].minutes > 1
    /\ \E i \in DOMAIN rollCalls : rollCalls[i].result = "PASSED"
    /\ \E i \in DOMAIN rollCalls : rollCalls[i].result = "MISSED"

----------------------------------------------------------------------------
(* Responses and trigger times (checked under SpecResponses) *)

\* C39: every roll-call resolved by a response has responded_at at or after
\* its triggered_at; a roll-call created with a trigger later than now is not
\* answered before that trigger.
C39_NoResponseBeforeTrigger ==
    \A i \in DOMAIN rollCalls :
        rollCalls[i].result \in {"PASSED", "LATE"}
            => rollCalls[i].responded_at >= rollCalls[i].triggered_at

----------------------------------------------------------------------------
(* Day summaries over the shifts an admin has created *)

CreditUsers == {2}
CreditAdmins == {1}
CreditUserSets == {{2}}
MaxCreditSessions == 2     \* sessions the user logs
CreditDays == {0, 1}
CreditDates == {FirstDay, FirstDay + 1}
\* Monday 23:00, Tuesday 00:00 and Tuesday 00:15
CreditInstants ==
    {FirstInstant, FirstInstant + SecondsPerHour, FirstInstant + SecondsPerHour + 900}

AdvanceCredit ==
    /\ \E t \in CreditInstants : t > now /\ now' = t
    /\ lastCall' = NoCall
    /\ UNCHANGED <<dbVars, txnVars>>

NextCredit ==
    \/ AdvanceCredit
    \/ \E a \in CreditAdmins, ids \in CreditUserSets, d \in CreditDays, times \in ShiftTimes :
          create_shift(a, ids, d, times[1], times[2])
    \/ \E u \in CreditUsers : Len(sessions) < MaxCreditSessions /\ start_work(u)
    \/ \E u \in CreditUsers : stop_work(u)
    \/ \E u \in CreditUsers, d \in CreditDates : build_summary_for_day(u, d)

SpecCredit == InitShifts /\ [][NextCredit]_vars

\* the length of session k in whole minutes, an open session ending now
SessionLength(k) ==
    ((IF sessions[k].ended_at = Null THEN now ELSE sessions[k].ended_at)
        - sessions[k].started_at) \div SecondsPerMinute

\* the minutes the summary of the day of session k credits to it
CreditedMinutes(k) ==
    minutes_in_windows(sessions[k].started_at, sessions[k].ended_at,
                       get_shift_windows_for_day(sessions[k].user_id,
                                                 Date(sessions[k].started_at)),
                       now)

\* C40: the minutes a day summary credits to one session never exceed the
\* length of that session in whole minutes, whatever shift windows the
\* user's assignments resolve to on that day; so the work minutes of a summary
\* never exceed the lengths of the day's WORK sessions together.
C40_CreditWithinSession ==
    (lastCall.op = "summary" /\ lastCall.result = "ok") =>
        LET day == {k \in DOMAIN sessions :
                       /\ sessions[k].user_id = lastCall.user
                       /\ Date(sessions[k].started_at) = lastCall.date}
        IN  /\ \A k \in day : CreditedMinutes(k) <= SessionLength(k)
            /\ lastCall.summary.work_minutes
                   <= SumFn([k \in day |->
                                IF sessions[k].session_type = "WORK"
                                THEN SessionLength(k) ELSE 0], day)

====
